---- MODULE Spec2Model ----
(***************************************************************************)
(* A model of the synchronisation and token-lifecycle engine of            *)
(* src/app.py: the token store kept in the 'tokens' worksheet              *)
(* (save_tokens_to_sheets, cleanup_duplicate_merchants,                    *)
(* get_tokens_from_sheets, get_all_active_merchants, update_sync_status,   *)
(* with the header row the records are keyed by), the customer fetch       *)
(* (fetch_all_customers, fetch_customers_fallback,                         *)
(* fetch_customer_invoices), the record store (save_customer_data) and     *)
(* the per-merchant orchestrator (sync_merchant_customers), the sync gate  *)
(* (should_sync_merchant), the passes over the merchants (background_sync, *)
(* force_sync_all, cron_sync) and syncs run on concurrent threads.         *)
(* The request handlers refresh_and_sync, manual_sync and list_merchants   *)
(* are modelled as far as they reach the token store and the sync.         *)
(*                                                                         *)
(* Every call of the Google Sheets client and of the Square API is one     *)
(* step; its outcome (an answer, a raised exception, or for a request to   *)
(* the Square API, which carries no timeout, no answer at all) is chosen   *)
(* by the environment.                                                     *)
(* Time is counted in ticks, TicksPerDay ticks to a day.                   *)
(***************************************************************************)
EXTENDS Integers, Sequences, FiniteSets, TLC

VARIABLES
    tokensExists,   \* the spreadsheet has a worksheet 'tokens'
    tokensHead,     \* row 1 of 'tokens': blank, the column names or a data row
    tokens,         \* the rows of 'tokens' from row 2 on (row k is sheet row k+1)
    clock,          \* datetime.now() of the credential store, in ticks
    call,           \* per thread: the save_tokens_to_sheets call in progress
    ncalls,         \* number of save_tokens_to_sheets calls started
    probe,          \* the last call of a read-only function and its result
    custSheet,      \* per merchant: the worksheet customers_<merchant_id>
    sy,             \* the sync_merchant_customers invocation in progress
    mode,           \* which entry point drives the behaviour
    sched,          \* the pass over the merchants in progress
    race,           \* per thread: a sync of one merchant run concurrently
    cleanup,        \* per thread: the cleanup_duplicate_merchants call in progress
    refresh         \* the refresh_and_sync request in progress

storeVars == <<tokensExists, tokensHead, tokens, clock, call, ncalls>>
syncVars == <<custSheet, sy>>

----------------------------------------------------------------------------
(* Bounds of the model *)

MaxCalls == 2
MaxRows == 3
MaxClock == 1
MaxPages == 3
MaxReplayPages == 2

----------------------------------------------------------------------------
(* Values *)

Procs == {"p1", "p2"}
Merchants == {"m1", "m2"}
\* access/refresh token pairs as the token endpoint hands them out
Grants == {<<"a1", "r1">>, <<"a2", "r2">>}
NoName == ""
Names == {NoName, "n1"}
NoTs == -1          \* an empty timestamp cell ('' or None)
BadTs == -2         \* a cell whose text is not an ISO timestamp
NoCount == -1       \* an empty total_customers cell

\* An untouched sheet row: every cell empty.
BlankRow ==
    [merchant_id |-> "", access_token |-> "", refresh_token |-> "",
     updated_at |-> NoTs, status |-> "", merchant_name |-> NoName,
     last_sync |-> NoTs, total_customers |-> NoCount]

\* A cell of a number or time column that holds the name of the column.
NameCell == -3

\* headers of lines 52-53, as a sheet row.
HeaderRow ==
    [merchant_id |-> "merchant_id", access_token |-> "access_token",
     refresh_token |-> "refresh_token", updated_at |-> NameCell,
     status |-> "status", merchant_name |-> "merchant_name",
     last_sync |-> NameCell, total_customers |-> NameCell]

\* sheet.get_all_records(): row 1 gives the keys of the records, one record
\* for every row below it.  Under a row 1 that is not the header row no record
\* has a key 'merchant_id' or 'status': record.get gives None for them, which
\* reads like an empty cell.
get_all_records(head, rows) ==
    IF head = HeaderRow THEN rows ELSE [k \in 1..Len(rows) |-> BlankRow]

\* sheet.append_row(row): the row goes below the last row of the sheet, into
\* row 1 when the sheet is empty.  The result is <<row 1, rows from 2 on>>.
append_row(head, rows, row) ==
    IF head = BlankRow /\ rows = <<>> THEN <<row, rows>>
    ELSE <<head, Append(rows, row)>>

\* sheet.update of one data row k: rows between the last row and k stay blank.
RECURSIVE PadTo(_, _)
PadTo(rows, k) ==
    IF Len(rows) >= k THEN rows ELSE PadTo(Append(rows, BlankRow), k)

\* Indices of the rows of a snapshot that carry merchant_id m.
RowsOf(rows, m) == {k \in 1..Len(rows) : rows[k].merchant_id = m}

CountRows(rows, m) == Cardinality(RowsOf(rows, m))

ActiveRowsOf(rows, m) == {k \in RowsOf(rows, m) : rows[k].status = "active"}

Min(S) == CHOOSE x \in S : \A y \in S : x <= y

\* No pass over the merchants and no concurrent syncs are in progress.
NoPass == [pc |-> "off"]
NoRace == <<>>

\* No cleanup_duplicate_merchants call is in progress.
IdleClean == [pc |-> "idle", records |-> <<>>, rows_to_delete |-> <<>>,
              ret |-> FALSE, deleted |-> 0,
              rows0 |-> <<>>]   \* the rows of the sheet when it was read

\* No refresh_and_sync request is in progress.
NoRefresh ==
    [pc |-> "idle", merchant_id |-> "",
     tokens |-> [found |-> FALSE],  \* what get_tokens_from_sheets returned
     sent |-> "",               \* the refresh token posted
     post |-> 0,                \* the status of the token endpoint's answer
     new_access_token |-> "", new_refresh_token |-> "",
     saved |-> FALSE,           \* save_tokens_to_sheets returned True
     success |-> FALSE,         \* sync_merchant_customers returned True
     status |-> 0,              \* the HTTP status answered
     tokens0 |-> <<>>,          \* 'tokens' when the request came in
     stored |-> <<>>,           \* 'tokens' when the save returned
     cust0 |-> <<>>]            \* the customer sheets when it came in

\* A function that works on the 'tokens' sheet is executing.
StoreBusy ==
    \/ \E p \in Procs : call[p].pc # "idle"
    \/ sy.pc # "idle"
    \/ \E p \in Procs : cleanup[p].pc # "idle"

\* Where one call of a function of the token store is looked at on its own,
\* the call is entered when no other is executing or has executed.
MayEnter == mode = "ops" => ~StoreBusy /\ ncalls = 0

----------------------------------------------------------------------------
(* save_tokens_to_sheets *)

IdleCall ==
    [pc |-> "idle", merchant_id |-> "", access_token |-> "",
     refresh_token |-> "", merchant_name |-> NoName,
     records |-> <<>>, i |-> 1, ret |-> FALSE,
     matched |-> 0, writes |-> 0, appended |-> FALSE]

\* update_values of lines 72-80 with the last two cells as new_row of
\* lines 95-104 has them: last_sync empty and total_customers 0.
UpdateValuesResetsSync(c, record, row, t) ==
    [merchant_id |-> row.merchant_id,
     access_token |-> c.access_token,
     refresh_token |-> c.refresh_token,
     updated_at |-> t,
     status |-> "active",
     merchant_name |-> IF c.merchant_name # NoName THEN c.merchant_name
                       ELSE record.merchant_name,
     last_sync |-> NoTs,
     total_customers |-> 0]

\* update_values of lines 72-80, written to B{i}:H{i}; column A is not written.
UpdateValues(c, record, row, t) ==
    [merchant_id |-> row.merchant_id,
     access_token |-> c.access_token,
     refresh_token |-> c.refresh_token,
     updated_at |-> t,
     status |-> "active",
     merchant_name |-> IF c.merchant_name # NoName THEN c.merchant_name
                       ELSE record.merchant_name,
     last_sync |-> record.last_sync,
     total_customers |-> record.total_customers]

\* new_row of lines 95-104.
NewRow(c, t) ==
    [merchant_id |-> c.merchant_id,
     access_token |-> c.access_token,
     refresh_token |-> c.refresh_token,
     updated_at |-> t,
     status |-> "active",
     merchant_name |-> c.merchant_name,
     last_sync |-> NoTs,
     total_customers |-> 0]

\* The rows of the snapshot at or after position i that match the merchant.
MatchesFrom(c) == {k \in RowsOf(c.records, c.merchant_id) : k >= c.i}

\* The call is entered with its arguments (line 33).
SaveBegin(p) ==
    /\ call[p].pc = "idle"
    /\ ncalls < MaxCalls
    /\ MayEnter
    /\ \E m \in Merchants, g \in Grants, n \in Names :
         call' = [call EXCEPT ![p] =
                    [IdleCall EXCEPT !.pc = "open", !.merchant_id = m,
                                     !.access_token = g[1],
                                     !.refresh_token = g[2],
                                     !.merchant_name = n]]
    /\ ncalls' = ncalls + 1
    /\ UNCHANGED <<tokensExists, tokensHead, tokens, clock, probe, syncVars, mode, sched, race, cleanup, refresh>>

\* Lines 36-50: connect, open the spreadsheet and look up 'tokens'; when the
\* lookup raises, add_worksheet creates the worksheet, with no row in it.
SaveOpen(p) ==
    /\ call[p].pc = "open"
    /\ \/ \* line 47: the worksheet is there
          /\ tokensExists
          /\ call' = [call EXCEPT ![p].pc = "read"]
          /\ UNCHANGED <<tokensExists, tokensHead, tokens>>
       \/ \* line 50: add_worksheet
          /\ ~tokensExists
          /\ tokensExists' = TRUE
          /\ tokensHead' = BlankRow
          /\ tokens' = <<>>
          /\ call' = [call EXCEPT ![p].pc = "headers"]
       \/ \* no client, the spreadsheet cannot be opened, or add_worksheet
          \* raises (as it does when the title is taken): return False
          /\ call' = [call EXCEPT ![p].pc = "done", ![p].ret = FALSE]
          /\ UNCHANGED <<tokensExists, tokensHead, tokens>>
    /\ UNCHANGED <<clock, ncalls, probe, syncVars, mode, sched, race, cleanup, refresh>>

\* Lines 52-57: sheet.append_row(headers) on the worksheet just created; a
\* raised append returns False and leaves the worksheet without its headers.
SaveHeaders(p) ==
    /\ call[p].pc = "headers"
    /\ \/ LET grid == append_row(tokensHead, tokens, HeaderRow) IN
          /\ tokensHead' = grid[1]
          /\ tokens' = grid[2]
          /\ call' = [call EXCEPT ![p].pc = "read"]
       \/ /\ call' = [call EXCEPT ![p].pc = "done", ![p].ret = FALSE]
          /\ UNCHANGED <<tokensHead, tokens>>
    /\ UNCHANGED <<tokensExists, clock, ncalls, probe, syncVars, mode, sched, race, cleanup, refresh>>

\* Line 61: records = sheet.get_all_records().
SaveRead(p) ==
    /\ call[p].pc = "read"
    /\ \/ call' = [call EXCEPT
                      ![p].pc = "scan", ![p].i = 1,
                      ![p].records = get_all_records(tokensHead, tokens)]
       \/ call' = [call EXCEPT ![p].pc = "done", ![p].ret = FALSE]
    /\ UNCHANGED <<tokensExists, tokensHead, tokens, clock, ncalls, probe, syncVars, mode, sched, race, cleanup, refresh>>

\* Lines 66-89: the loop runs to the next matching record and updates its
\* row; a raised update is caught and the loop goes on with the next record.
SaveScan(p) ==
    LET c == call[p]
        M == MatchesFrom(c)
    IN
    /\ c.pc = "scan"
    /\ IF M = {}
       THEN /\ call' = [call EXCEPT ![p].pc = "append"]
            /\ UNCHANGED tokens
       ELSE LET k == Min(M)
                padded == PadTo(tokens, k)
            IN
            \/ /\ tokens' = [padded EXCEPT
                               ![k] = UpdateValues(c, c.records[k], padded[k], clock)]
               /\ call' = [call EXCEPT ![p].pc = "done", ![p].ret = TRUE,
                                       ![p].matched = c.matched + 1,
                                       ![p].writes = c.writes + 1]
            \/ /\ call' = [call EXCEPT ![p].i = k + 1,
                                       ![p].matched = c.matched + 1]
               /\ UNCHANGED tokens
    /\ UNCHANGED <<tokensExists, tokensHead, clock, ncalls, probe, syncVars, mode, sched, race, cleanup, refresh>>

\* Lines 92-109: no row was updated, so a new row is appended.
SaveAppend(p) ==
    LET c == call[p] IN
    /\ c.pc = "append"
    /\ \/ LET grid == append_row(tokensHead, tokens, NewRow(c, clock)) IN
          /\ tokensHead' = grid[1]
          /\ tokens' = grid[2]
          /\ call' = [call EXCEPT ![p].pc = "done", ![p].ret = TRUE,
                                  ![p].appended = TRUE]
       \/ \* append_row raises: lines 111-113
          /\ call' = [call EXCEPT ![p].pc = "done", ![p].ret = FALSE]
          /\ UNCHANGED <<tokensHead, tokens>>
    /\ UNCHANGED <<tokensExists, clock, ncalls, probe, syncVars, mode, sched, race, cleanup, refresh>>

\* The call returns to its caller.
SaveReturn(p) ==
    /\ call[p].pc = "done"
    /\ call' = [call EXCEPT ![p] = IdleCall]
    /\ UNCHANGED <<tokensExists, tokensHead, tokens, clock, ncalls, probe, syncVars, mode, sched, race, cleanup, refresh>>

SaveStep(p) ==
    \/ SaveBegin(p)
    \/ SaveOpen(p)
    \/ SaveHeaders(p)
    \/ SaveRead(p)
    \/ SaveScan(p)
    \/ SaveAppend(p)
    \/ SaveReturn(p)

----------------------------------------------------------------------------
(* get_all_active_merchants *)

NoProbe == [op |-> "none"]

ActiveEntry(record) ==
    [merchant_id |-> record.merchant_id,
     merchant_name |-> record.merchant_name,
     last_sync |-> record.last_sync,
     total_customers |-> record.total_customers]

\* Lines 189-201 without the seen_merchants test.
RECURSIVE ActiveScanNoSeen(_, _, _)
ActiveScanNoSeen(records, k, seen) ==
    IF k > Len(records) THEN <<>>
    ELSE IF records[k].status = "active"
         THEN <<ActiveEntry(records[k])>>
                \o ActiveScanNoSeen(records, k + 1, seen)
         ELSE ActiveScanNoSeen(records, k + 1, seen)

\* Lines 189-201: the loop over the records from record k on, with the
\* merchants seen so far.
RECURSIVE ActiveScan(_, _, _)
ActiveScan(records, k, seen) ==
    IF k > Len(records) THEN <<>>
    ELSE IF records[k].status = "active" /\ records[k].merchant_id \notin seen
         THEN <<ActiveEntry(records[k])>>
                \o ActiveScan(records, k + 1, seen \cup {records[k].merchant_id})
         ELSE ActiveScan(records, k + 1, seen)

\* Lines 178-205; ok is false when the client, the worksheet or the read
\* raises, and the function then returns [].
get_all_active_merchants(exists, head, rows, ok) ==
    IF ok /\ exists THEN ActiveScan(get_all_records(head, rows), 1, {})
    ELSE <<>>

\* A caller lists the active merchants.
ListActive ==
    /\ probe = NoProbe
    /\ \E ok \in BOOLEAN :
         probe' = [op |-> "list", ok |-> ok /\ tokensExists,
                   out |-> get_all_active_merchants(tokensExists, tokensHead, tokens, ok)]
    /\ UNCHANGED <<storeVars, syncVars, mode, sched, race, cleanup, refresh>>

----------------------------------------------------------------------------
(* Time and the client-side date filter *)

TicksPerDay == 2
DaysBack == 365

\* datetime.now() of a sync, and now - timedelta(days=days_back).
Now0 == (DaysBack + 3) * TicksPerDay
CutoffAt(now, days_back) == now - days_back * TicksPerDay

\* datetime.now() advances, up to MaxClock ticks from where the clock
\* started (0, or Now0 where a sync runs).
Tick ==
    /\ clock < MaxClock \/ (Now0 <= clock /\ clock < Now0 + MaxClock)
    /\ clock' = clock + 1
    /\ UNCHANGED <<tokensExists, tokensHead, tokens, call, ncalls, probe, syncVars, mode, sched, race, cleanup, refresh>>

\* datetime.fromisoformat(text.replace('Z', '+00:00')) returns a value.
Parses(ts) == ts # BadTs

\* (datetime.now() - d.replace(tzinfo=None)).days: whole days, rounded down.
DaysSince(now, ts) == (now - ts) \div TicksPerDay

\* Lines 440-446 and 448-454: one timestamp against the window.
SearchKeepsTs(ts, now, days_back) ==
    /\ ts # NoTs
    /\ Parses(ts)
    /\ DaysSince(now, ts) <= days_back

\* Lines 438-457: include_customer of fetch_all_customers.
SearchKeeps(customer, now, days_back) ==
    IF SearchKeepsTs(customer.created_at, now, days_back) THEN TRUE
    ELSE SearchKeepsTs(customer.updated_at, now, days_back)

\* Lines 521-527 and 529-535: one timestamp against cutoff_date.
FallbackKeepsTs(ts, now, days_back) ==
    /\ ts # NoTs
    /\ Parses(ts)
    /\ ts >= CutoffAt(now, days_back)

\* Lines 519-538: include_customer of fetch_customers_fallback.
FallbackKeeps(customer, now, days_back) ==
    IF FallbackKeepsTs(customer.created_at, now, days_back) THEN TRUE
    ELSE FallbackKeepsTs(customer.updated_at, now, days_back)

\* Lines 432-457 without the try around each parse: the loop over the page
\* ends at the first timestamp that does not parse.
RECURSIVE SearchFilterStopsAtMalformed(_, _, _)
SearchFilterStopsAtMalformed(page, now, days_back) ==
    IF page = <<>> THEN <<>>
    ELSE LET c == Head(page) IN
         IF \/ ~Parses(c.created_at)
            \/ /\ ~SearchKeepsTs(c.created_at, now, days_back)
               /\ ~Parses(c.updated_at)
         THEN <<>>
         ELSE (IF SearchKeeps(c, now, days_back) THEN <<c>> ELSE <<>>)
              \o SearchFilterStopsAtMalformed(Tail(page), now, days_back)

\* filtered_customers of lines 432-457.
SearchFilter(page, now, days_back) ==
    SelectSeq(page, LAMBDA c : SearchKeeps(c, now, days_back))

\* filtered_customers of lines 513-538.
FallbackFilter(page, now, days_back) ==
    SelectSeq(page, LAMBDA c : FallbackKeeps(c, now, days_back))

----------------------------------------------------------------------------
(* The sync gate *)

SyncThresholdDays == 3

\* Lines 580-590 with the except branch answering False.
ShouldSyncFailsClosed(last_sync, threshold_days, now) ==
    IF last_sync = NoTs THEN TRUE
    ELSE IF ~Parses(last_sync) THEN FALSE
    ELSE DaysSince(now, last_sync) >= threshold_days

\* Lines 580-590 with line 588 as "days_since_sync > threshold_days".
ShouldSyncStrictlyOlder(last_sync, threshold_days, now) ==
    IF last_sync = NoTs THEN TRUE
    ELSE IF ~Parses(last_sync) THEN TRUE
    ELSE DaysSince(now, last_sync) > threshold_days

\* Lines 580-590; now is datetime.now() of line 587.  A last_sync that is
\* None or '' is NoTs, one that fromisoformat rejects is BadTs.
should_sync_merchant(last_sync, threshold_days, now) ==
    IF last_sync = NoTs THEN TRUE
    ELSE IF ~Parses(last_sync) THEN TRUE
    ELSE DaysSince(now, last_sync) >= threshold_days

\* Lines 620-634 with should_sync left False by the except branch.
InlineGateFailsClosed(last_sync, sync_threshold_days, now) ==
    IF last_sync # NoTs
    THEN IF Parses(last_sync)
         THEN DaysSince(now, last_sync) >= sync_threshold_days
         ELSE FALSE
    ELSE TRUE

\* Lines 620-634: should_sync as background_sync computes it in place.
InlineGate(last_sync, sync_threshold_days, now) ==
    IF last_sync # NoTs
    THEN IF Parses(last_sync)
         THEN DaysSince(now, last_sync) >= sync_threshold_days
         ELSE TRUE
    ELSE TRUE

----------------------------------------------------------------------------
(* The Square API as the sync sees it *)

NoCursor == ""
Cursors == {"c1", "c2"}

\* latest_invoice of a customer the linker attached nothing to.
NoInvoice == [id |-> "", sale_or_service_date |-> NoTs, due_date |-> NoTs,
              invoice_status |-> ""]

Customer(id, created, updated) ==
    [id |-> id, created_at |-> created, updated_at |-> updated,
     latest_invoice |-> NoInvoice,
     hashable |-> TRUE]      \* 'id' is a string (or missing), not an array

cIn == Customer("k1", Now0 - 1, Now0 - 1)
cUpd == Customer("k2", 0, Now0 - 1)
cOut == Customer("k3", 0, 0)
cBad == Customer("k4", BadTs, NoTs)

\* The pages a customers endpoint may answer with.
Pages == {<<cIn, cOut>>, <<cUpd>>, <<cOut, cBad>>}

\* The first payment request of an invoice has no key 'tipping_enabled'.
NoFlag == "absent"

\* An invoice; it has a payment request when it has a due date, and
\* tipping is the value under 'tipping_enabled' of that request ("true" or
\* "false"), or NoFlag.
Invoice(id, customer, status, due, tipping) ==
    [id |-> id, customer_id |-> customer, status |-> status,
     has_payment_request |-> due # NoTs, due_date |-> due,
     tipping_enabled |-> IF due # NoTs THEN tipping ELSE NoFlag,
     created_at |-> Now0 - 1]

\* The invoice lists /v2/invoices/search may answer with, newest first.
InvoiceLists ==
    {<<>>,
     <<Invoice("i1", "k1", "UNPAID", Now0, "false"),
       Invoice("i2", "k1", "PAID", NoTs, NoFlag),
       Invoice("i3", "k9", "PAID", NoTs, NoFlag)>>,
     <<Invoice("i5", "k1", "UNPAID", Now0, NoFlag)>>}

\* Lines 361-384: the entry built from one invoice.  Line 373 looks for
\* the key 'tipping_enabled' in the first payment request, whatever its
\* value.
InvoiceEntry(invoice) ==
    [id |-> invoice.id,
     sale_or_service_date |->
        IF invoice.has_payment_request /\ invoice.tipping_enabled # NoFlag
        THEN invoice.created_at ELSE NoTs,
     due_date |-> IF invoice.has_payment_request THEN invoice.due_date ELSE NoTs,
     invoice_status |-> invoice.status]

\* Lines 355-384 without "customer_id not in customer_invoices": a later
\* invoice of a customer replaces the earlier one.
RECURSIVE LinkInvoicesLastWins(_, _, _, _)
LinkInvoicesLastWins(invoices, k, customer_ids, acc) ==
    IF k > Len(invoices) THEN acc
    ELSE LET cid == invoices[k].customer_id IN
         IF cid \in customer_ids
         THEN LinkInvoicesLastWins(invoices, k + 1, customer_ids,
                                   (cid :> InvoiceEntry(invoices[k])) @@ acc)
         ELSE LinkInvoicesLastWins(invoices, k + 1, customer_ids, acc)

\* Lines 355-384: the loop over the invoices from invoice k on; acc is
\* customer_invoices so far.
RECURSIVE LinkInvoices(_, _, _, _)
LinkInvoices(invoices, k, customer_ids, acc) ==
    IF k > Len(invoices) THEN acc
    ELSE LET cid == invoices[k].customer_id IN
         IF cid \in customer_ids /\ cid \notin DOMAIN acc
         THEN LinkInvoices(invoices, k + 1, customer_ids,
                           acc @@ (cid :> InvoiceEntry(invoices[k])))
         ELSE LinkInvoices(invoices, k + 1, customer_ids, acc)

\* Lines 319-392: the map returned for a response; status 0 stands for a
\* raised request.
fetch_customer_invoices(customer_ids, status, invoices) ==
    IF customer_ids = {} THEN <<>>
    ELSE IF status = 200 THEN LinkInvoices(invoices, 1, customer_ids, <<>>)
    ELSE <<>>

\* Line 475: the ids of the fetched customers.
CustomerIds(customers) ==
    {customers[k].id : k \in {j \in 1..Len(customers) : customers[j].id # ""}}

\* Lines 479-482 with customers that got no invoice left out.
MergeInvoicesDropsUnlinked(customers, invoice_data) ==
    SelectSeq([k \in 1..Len(customers) |->
                  IF customers[k].id \in DOMAIN invoice_data
                  THEN [customers[k] EXCEPT
                          !.latest_invoice = invoice_data[customers[k].id]]
                  ELSE customers[k]],
              LAMBDA c : c.id \in DOMAIN invoice_data)

\* Line 481: "customer_id in invoice_data" hashes the id; an id that cannot
\* be hashed (a JSON array) raises TypeError, outside every try.
MergeRaises(customers) ==
    \E k \in 1..Len(customers) : ~customers[k].hashable

\* Lines 479-482: merge invoice data with customer data.
MergeInvoices(customers, invoice_data) ==
    [k \in 1..Len(customers) |->
        IF customers[k].id \in DOMAIN invoice_data
        THEN [customers[k] EXCEPT !.latest_invoice = invoice_data[customers[k].id]]
        ELSE customers[k]]

----------------------------------------------------------------------------
(* get_tokens_from_sheets *)

NoTokens == [found |-> FALSE]

\* Lines 163-173 without the test of the status.
TokensOfRowsAnyStatus(rows, m) ==
    IF RowsOf(rows, m) = {} THEN NoTokens
    ELSE LET r == rows[Min(RowsOf(rows, m))] IN
         [found |-> TRUE, access_token |-> r.access_token,
          refresh_token |-> r.refresh_token, updated_at |-> r.updated_at,
          merchant_name |-> r.merchant_name, last_sync |-> r.last_sync,
          total_customers |-> r.total_customers]

\* Lines 163-173: the first record of the merchant with status active.
TokensOfRows(rows, m) ==
    IF ActiveRowsOf(rows, m) = {} THEN NoTokens
    ELSE LET r == rows[Min(ActiveRowsOf(rows, m))] IN
         [found |-> TRUE, access_token |-> r.access_token,
          refresh_token |-> r.refresh_token, updated_at |-> r.updated_at,
          merchant_name |-> r.merchant_name, last_sync |-> r.last_sync,
          total_customers |-> r.total_customers]

\* Lines 152-176 when line 164 does not look at the status.
GetTokensOfAnyStatus(exists, head, rows, m, ok) ==
    IF ok /\ exists THEN TokensOfRowsAnyStatus(get_all_records(head, rows), m)
    ELSE NoTokens

\* Lines 152-176; ok is false when the client, the worksheet or the read
\* raises, and the function then returns None.
get_tokens_from_sheets(exists, head, rows, m, ok) ==
    IF ok /\ exists THEN TokensOfRows(get_all_records(head, rows), m)
    ELSE NoTokens

----------------------------------------------------------------------------
(* save_customer_data *)

NoSheet == [exists |-> FALSE, header |-> FALSE, rows |-> <<>>]

\* A sheet right after sheet.clear() or add_worksheet.
EmptySheet == [exists |-> TRUE, header |-> FALSE, rows |-> <<>>]

\* Lines 251-256 without sheet.clear().
ClearSkipped(sheet) == [sheet EXCEPT !.exists = TRUE]

\* Lines 251-256: the existing sheet is cleared, a missing one is created.
ClearedSheet(sheet) == EmptySheet

\* Line 309: sheet.update of the range A1:Z<1 + number of customers> with
\* the header row and the rows of the customers; rows of the sheet below
\* that range stay as they are.
WrittenSheet(sheet, rows) ==
    [exists |-> TRUE, header |-> TRUE,
     rows |-> rows \o SubSeq(sheet.rows, Len(rows) + 1, Len(sheet.rows))]

\* Lines 259-266: the header row.
CustomerHeaders ==
    <<"customer_id", "given_name", "family_name", "company_name", "nickname",
      "email_address", "phone_number", "address_line_1", "address_line_2",
      "locality", "administrative_district_level_1", "postal_code", "country",
      "created_at", "updated_at", "birthday", "note", "reference_id",
      "group_ids", "segment_ids", "preferences", "version", "sync_date",
      "latest_invoice_id", "sale_or_service_date", "due_date",
      "invoice_status", "invoice_amount">>

\* Lines 274-304: what each cell of a customer's row is taken from.
CustomerRowCells ==
    <<"id", "given_name", "family_name", "company_name", "nickname",
      "email_address", "phone_number", "address.address_line_1",
      "address.address_line_2", "address.locality",
      "address.administrative_district_level_1", "address.postal_code",
      "address.country", "created_at", "updated_at", "birthday", "note",
      "reference_id", "group_ids", "segment_ids", "preferences", "version",
      "now", "latest_invoice.id", "latest_invoice.sale_or_service_date",
      "latest_invoice.due_date", "latest_invoice.invoice_status",
      "latest_invoice.order_total.amount">>

\* The columns of a sheet in A1 notation, as far as one letter names them.
ColumnLetters ==
    <<"A", "B", "C", "D", "E", "F", "G", "H", "I", "J", "K", "L", "M",
      "N", "O", "P", "Q", "R", "S", "T", "U", "V", "W", "X", "Y", "Z">>

ColumnNumber(letter) ==
    CHOOSE k \in 1..Len(ColumnLetters) : ColumnLetters[k] = letter

\* Line 309: the number of columns of the range A1:Z<n>.
UpdateRangeColumns == ColumnNumber("Z") - ColumnNumber("A") + 1

\* Lines 274-304: the row written for one customer.
CustomerRow(customer, t) ==
    [customer_id |-> customer.id,
     created_at |-> customer.created_at,
     updated_at |-> customer.updated_at,
     sync_date |-> t,
     latest_invoice_id |-> customer.latest_invoice.id,
     sale_or_service_date |-> customer.latest_invoice.sale_or_service_date,
     due_date |-> customer.latest_invoice.due_date,
     invoice_status |-> customer.latest_invoice.invoice_status]

\* Lines 269-305: rows without the header row.
CustomerRows(customers, t) ==
    [k \in 1..Len(customers) |-> CustomerRow(customers[k], t)]

----------------------------------------------------------------------------
(* sync_merchant_customers and the functions it calls *)

\* The answers of the Square API to the first of two runs, by endpoint.
NoTape == [search |-> <<>>, list |-> <<>>, invoices |-> <<>>]

NoFirst == [persisted |-> FALSE, sheet |-> NoSheet, at |-> 0]

IdleSync ==
    [pc |-> "idle", merchant_id |-> "", access_token |-> "",
     all_customers |-> <<>>, cursor |-> NoCursor,
     records |-> <<>>, i |-> 1, updated_count |-> 0, ret |-> FALSE,
     \* what the invocation has done so far
     path |-> "none",        \* the customers endpoint in use
     reqs |-> <<>>,          \* the requests sent to that endpoint
     resps |-> <<>>,         \* and the answers to them
     ireqs |-> <<>>,         \* the invoice searches sent
     nreq |-> 0,             \* all requests sent to the Square API
     tok |-> "none",         \* "found" or "missing" after line 560
     fetch |-> "none",       \* how the customer fetch ended: "ok", "failed"
     link |-> "none",        \* how the invoice search ended: "ok", "failed"
     invoices |-> <<>>,      \* the invoices of the answer to that search
     icursor |-> NoCursor,   \* the cursor of that answer
     later |-> <<>>,         \* the invoices behind that cursor
     invoice_data |-> <<>>,  \* the map fetch_customer_invoices returned
     fetched |-> <<>>,       \* all_customers when the fetch loop ended
     fallback_now |-> 0,     \* datetime.now() of line 498, read once
     writes |-> 0,           \* writes made to the worksheets
     storeFailed |-> FALSE,  \* a call of the Sheets client raised
     persisted |-> FALSE,    \* save_customer_data returned True
     tokens0 |-> <<>>,       \* 'tokens' when the sync was entered
     at |-> 0,               \* the time when update_sync_status was entered
     cust0 |-> NoSheet,      \* the merchant's customer sheet at that time
     \* a sync that is run twice on unchanged external data
     run |-> 1,              \* 1 for the first run, 2 for the second
     tape |-> NoTape,        \* the answers the first run received
     first |-> NoFirst]      \* how the first run ended

\* The answers of a customers endpoint to request number n of a loop: a
\* page with or without a cursor, a non-200 status, or a raised request
\* (status 0).  The source stops handing out cursors after MaxPages pages.
CustomerResponses(n) ==
    {[status |-> 200, page |-> pg, cursor |-> c] :
        pg \in Pages, c \in IF n < MaxPages THEN Cursors \cup {NoCursor}
                            ELSE {NoCursor}}
    \cup {[status |-> 500, page |-> <<>>, cursor |-> NoCursor],
          [status |-> 0, page |-> <<>>, cursor |-> NoCursor]}

\* Customers whose timestamps do not parse, and one of whose timestamps only
\* created_at does not.
cBadBoth == Customer("k5", BadTs, BadTs)
cBadCreated == Customer("k6", BadTs, Now0 - 1)

\* A customer of the window without the key 'id'.
cNoId == Customer("", Now0 - 1, Now0 - 1)

\* A customer of the window whose 'id' is a JSON array.
cUnhashable == [Customer("k7", Now0 - 1, Now0 - 1) EXCEPT !.hashable = FALSE]

\* Pages with such customers before, between and after well-formed ones,
\* and a page whose only customer has no id.
MalformedPages ==
    {<<cBad, cIn>>, <<cIn, cBadBoth, cBadCreated>>, <<cBadBoth>>, <<cNoId>>}

\* The answers of a customers endpoint that serves those pages.
MalformedResponses(n) ==
    {IF rsp.status = 200 THEN [rsp EXCEPT !.page = pg] ELSE rsp :
        rsp \in CustomerResponses(n), pg \in MalformedPages}

\* The invoices the search holds behind the first page when there are more
\* than fit into one answer ('limit': 100, line 345).
LaterInvoices == <<Invoice("i4", "k2", "UNPAID", Now0, "true")>>

\* The answers of /v2/invoices/search: the first page of the result, the
\* cursor to the next page if there is one, and in 'later' the invoices
\* the search would hand out on the pages behind that cursor.
InvoiceResponses ==
    {[status |-> 200, invoices |-> inv, cursor |-> NoCursor, later |-> <<>>] :
        inv \in InvoiceLists}
    \cup {[status |-> 200, invoices |-> inv, cursor |-> "c1",
           later |-> LaterInvoices] : inv \in InvoiceLists \ {<<>>}}
    \cup {[status |-> st, invoices |-> <<>>, cursor |-> NoCursor,
           later |-> <<>>] : st \in {403, 500, 0}}

\* The answers to the syncs of a pass over the merchants: one page of
\* customers (none, one of the window, one whose id cannot be hashed, or
\* one whose id is the empty array: no id at line 475, not hashable at
\* line 481), a non-200 status or a raised request.
PassResponses(n) ==
    {IF rsp.status = 200 THEN [rsp EXCEPT !.page = pg] ELSE rsp :
        rsp \in {r \in CustomerResponses(n) : r.cursor = NoCursor},
        pg \in {<<>>, <<cIn>>, <<cUnhashable>>,
                <<[cUnhashable EXCEPT !.id = ""]>>}}

\* The answers request number n to an endpoint can get: any answer of the
\* endpoint, and in the second of two runs on unchanged external data the
\* answer the first run got to that request, when it sent it (a first run
\* that ended before the fetch sent none).  A run that is to be repeated,
\* and the sync of a refresh_and_sync request, get no cursor after
\* MaxReplayPages pages, and the search of a refresh_and_sync request can
\* also be answered with the customer whose id cannot be hashed; the syncs
\* of a pass get one page of customers and an invoice search without
\* invoices.
Answers(endpoint, n, all) ==
    IF mode = "malformed" /\ endpoint # "invoices" THEN MalformedResponses(n)
    ELSE IF mode \in {"sched", "loop"}
    THEN IF endpoint = "invoices"
         THEN {rsp \in all : rsp.invoices = <<>>}
         ELSE PassResponses(n)
    ELSE IF sy.run = 2 /\ n <= Len(sy.tape[endpoint])
    THEN {sy.tape[endpoint][n]}
    ELSE IF mode \in {"twice", "refresh"}
    THEN {rsp \in all : endpoint = "invoices" \/ n < MaxReplayPages
                            \/ rsp.cursor = NoCursor}
         \cup (IF mode = "refresh" /\ endpoint = "search" /\ n = 1
               THEN {[status |-> 200, page |-> <<cUnhashable>>,
                      cursor |-> NoCursor]}
               ELSE {})
    ELSE all

\* The first of two runs keeps the answers it gets.
Taped(s, endpoint, rsp) ==
    IF mode = "twice" /\ s.run = 1
    THEN [s EXCEPT !.tape[endpoint] = Append(@, rsp)]
    ELSE s

Request(endpoint, s) ==
    [endpoint |-> endpoint, cursor |-> s.cursor, token |-> s.access_token]

\* Line 461 with a cursor that is set once and never replaced.
CursorAfterKeepsFirst(cursor, rsp) ==
    IF cursor # NoCursor /\ rsp.cursor # NoCursor THEN cursor ELSE rsp.cursor

\* Line 461 with lines 421-422: the cursor the next request carries.
CursorAfter(cursor, rsp) == rsp.cursor

\* Line 567: "if customers or customers == []".
FetchSucceeded(customers) == customers # <<>> \/ customers = <<>>

\* Lines 556-558: the sync is entered for a merchant.
SyncBegin ==
    /\ sy.pc = "idle"
    /\ \E m \in Merchants :
         sy' = [IdleSync EXCEPT !.pc = "tokens", !.merchant_id = m,
                                !.tokens0 = tokens, !.cust0 = custSheet[m]]
    /\ UNCHANGED <<storeVars, probe, custSheet, mode, sched, race, cleanup, refresh>>

\* Lines 560-563: load the credential; without one the sync returns False.
SyncTokens ==
    /\ sy.pc = "tokens"
    /\ \E ok \in BOOLEAN :
         LET t == get_tokens_from_sheets(tokensExists, tokensHead, tokens, sy.merchant_id, ok)
         IN IF t.found
            THEN sy' = [sy EXCEPT !.pc = "search", !.path = "search",
                                  !.tok = "found",
                                  !.access_token = t.access_token]
            ELSE sy' = [sy EXCEPT !.pc = "done", !.tok = "missing",
                                  !.ret = FALSE]
    /\ UNCHANGED <<storeVars, probe, custSheet, mode, sched, race, cleanup, refresh>>

\* Lines 473-485 when the loop of fetch_all_customers has ended.
AfterSearch(s) ==
    IF s.all_customers # <<>>
    THEN [s EXCEPT !.pc = "invoices", !.fetched = s.all_customers]
    ELSE [s EXCEPT !.pc = "fetched", !.fetched = s.all_customers]

\* Lines 420-471: one request of the search loop and what follows from the
\* response.
SearchRequest ==
    /\ sy.pc = "search"
    /\ \E rsp \in Answers("search", Len(sy.reqs) + 1,
                          CustomerResponses(Len(sy.reqs) + 1)) :
         LET s == Taped([sy EXCEPT
                           !.reqs = Append(sy.reqs, Request("search", sy)),
                           !.resps = Append(sy.resps, rsp),
                           !.nreq = sy.nreq + 1], "search", rsp)
         IN
         IF rsp.status = 200
         THEN LET t == [s EXCEPT
                          !.all_customers =
                              s.all_customers
                                \o SearchFilter(rsp.page, clock, DaysBack),
                          !.cursor = CursorAfter(s.cursor, rsp)]
              IN IF t.cursor = NoCursor
                 THEN sy' = AfterSearch([t EXCEPT !.fetch = "ok"])
                 ELSE sy' = t
         ELSE IF rsp.status = 0
         THEN sy' = AfterSearch([s EXCEPT !.fetch = "failed"])
         ELSE \* lines 464-467 and 488-498: the fallback starts with nothing
              \* accumulated and computes its cutoff_date
              sy' = [s EXCEPT !.pc = "fallback", !.path = "fallback",
                              !.fallback_now = clock,
                              !.all_customers = <<>>, !.cursor = NoCursor,
                              !.reqs = <<>>, !.resps = <<>>]
    /\ UNCHANGED <<storeVars, probe, custSheet, mode, sched, race, cleanup, refresh>>

\* Lines 500-554: one request of the fallback loop.  Every page is
\* filtered against the cutoff_date of line 498.
FallbackRequest ==
    /\ sy.pc = "fallback"
    /\ \E rsp \in Answers("list", Len(sy.reqs) + 1,
                          CustomerResponses(Len(sy.reqs) + 1)) :
         LET s == Taped([sy EXCEPT
                           !.reqs = Append(sy.reqs, Request("list", sy)),
                           !.resps = Append(sy.resps, rsp),
                           !.nreq = sy.nreq + 1], "list", rsp)
         IN
         IF rsp.status = 200
         THEN LET t == [s EXCEPT
                          !.all_customers =
                              s.all_customers
                                \o FallbackFilter(rsp.page, sy.fallback_now,
                                                  DaysBack),
                          !.cursor = CursorAfter(s.cursor, rsp)]
              IN IF t.cursor = NoCursor
                 THEN sy' = [t EXCEPT !.pc = "fetched", !.fetch = "ok",
                                      !.fetched = t.all_customers]
                 ELSE sy' = t
         ELSE sy' = [s EXCEPT !.pc = "fetched", !.fetch = "failed",
                              !.fetched = s.all_customers]
    /\ UNCHANGED <<storeVars, probe, custSheet, mode, sched, race, cleanup, refresh>>

\* Lines 474-482 with fetch_customer_invoices (lines 319-392): one invoice
\* search, then the merge.  Without a customer id (lines 321-322) no
\* request is sent.  An exception of the merge leaves fetch_all_customers
\* and sync_merchant_customers, neither of which catches it there.
InvoiceRequest ==
    /\ sy.pc = "invoices"
    /\ IF CustomerIds(sy.all_customers) = {}
       THEN sy' = [sy EXCEPT
                     !.pc = IF MergeRaises(sy.all_customers) THEN "raised"
                            ELSE "fetched",
                     !.invoice_data = fetch_customer_invoices({}, 0, <<>>),
                     !.all_customers =
                         IF MergeRaises(sy.all_customers) THEN sy.all_customers
                         ELSE MergeInvoices(sy.all_customers, <<>>)]
       ELSE
       \E rsp \in Answers("invoices", Len(sy.ireqs) + 1, InvoiceResponses) :
         LET ids == CustomerIds(sy.all_customers)
             invoice_data == fetch_customer_invoices(ids, rsp.status, rsp.invoices)
         IN sy' = [Taped(sy, "invoices", rsp) EXCEPT
                     !.pc = IF MergeRaises(sy.all_customers) THEN "raised"
                            ELSE "fetched",
                     !.ireqs = Append(sy.ireqs,
                                      [Request("invoices", sy) EXCEPT !.cursor = NoCursor]),
                     !.nreq = sy.nreq + 1,
                     !.link = IF rsp.status = 200 THEN "ok" ELSE "failed",
                     !.invoices = rsp.invoices,
                     !.icursor = rsp.cursor,
                     !.later = rsp.later,
                     !.invoice_data = invoice_data,
                     !.all_customers =
                         IF MergeRaises(sy.all_customers) THEN sy.all_customers
                         ELSE MergeInvoices(sy.all_customers, invoice_data)]
    /\ UNCHANGED <<storeVars, probe, custSheet, mode, sched, race, cleanup, refresh>>

\* Lines 425, 506 and 348: requests.post and requests.get are called
\* without a timeout; a request the server never answers does not return.
RequestBlocks ==
    /\ sy.pc \in {"search", "fallback", "invoices"}
    /\ sy.pc = "invoices" => CustomerIds(sy.all_customers) # {}
    /\ sy' = [sy EXCEPT !.pc = "blocked"]
    /\ UNCHANGED <<storeVars, probe, custSheet, mode, sched, race, cleanup, refresh>>

\* Lines 565-567 and 576-578: the fetch has returned.
SyncGate ==
    /\ sy.pc = "fetched"
    /\ IF FetchSucceeded(sy.all_customers)
       THEN sy' = [sy EXCEPT !.pc = "persist_open"]
       ELSE sy' = [sy EXCEPT !.pc = "done", !.ret = FALSE]
    /\ UNCHANGED <<storeVars, probe, custSheet, mode, sched, race, cleanup, refresh>>

\* Lines 242-256: the sheet of the merchant is cleared, or created.
PersistOpen ==
    /\ sy.pc = "persist_open"
    /\ \/ /\ custSheet' = [custSheet EXCEPT ![sy.merchant_id] =
                                               ClearedSheet(@)]
          /\ sy' = [sy EXCEPT !.pc = "persist_write", !.writes = sy.writes + 1]
       \/ \* no client, or clear / add_worksheet raises: lines 315-317
          /\ sy' = [sy EXCEPT !.pc = "done", !.ret = FALSE,
                              !.storeFailed = TRUE]
          /\ UNCHANGED custSheet
    /\ UNCHANGED <<storeVars, probe, mode, sched, race, cleanup, refresh>>

\* Lines 307-317: the batch update, skipped when there is no customer.
PersistWrite ==
    /\ sy.pc = "persist_write"
    /\ IF Len(sy.all_customers) + 1 > 1
       THEN \/ /\ custSheet' =
                    [custSheet EXCEPT ![sy.merchant_id] =
                        WrittenSheet(@, CustomerRows(sy.all_customers, clock))]
               /\ sy' = [sy EXCEPT !.pc = "status_read", !.persisted = TRUE,
                                   !.writes = sy.writes + 1]
            \/ /\ sy' = [sy EXCEPT !.pc = "done", !.ret = FALSE,
                                   !.storeFailed = TRUE]
               /\ UNCHANGED custSheet
       ELSE /\ sy' = [sy EXCEPT !.pc = "status_read", !.persisted = TRUE]
            /\ UNCHANGED custSheet
    /\ UNCHANGED <<storeVars, probe, mode, sched, race, cleanup, refresh>>

\* Line 224 with the range one column too far to the left: F{i}:G{i}.
StatusCellsShifted(row, t, n) ==
    [row EXCEPT !.merchant_name = "n1", !.last_sync = t]

\* Line 224: G{i}:H{i} of a row get the time and the customer count.
StatusCells(row, t, n) ==
    [row EXCEPT !.last_sync = t, !.total_customers = n]

\* Lines 229-238: what update_sync_status returns.
StatusResult(s) == ~s.storeFailed /\ s.updated_count > 0

\* Lines 209-219 of update_sync_status, called at line 570; its result is
\* not looked at, so the sync returns True also when it fails.
StatusRead ==
    /\ sy.pc = "status_read"
    /\ \/ /\ tokensExists
          /\ sy' = [sy EXCEPT !.pc = "status_write", !.i = 1,
                              !.records = get_all_records(tokensHead, tokens),
                              !.updated_count = 0]
       \/ sy' = [sy EXCEPT !.pc = "done", !.ret = TRUE, !.storeFailed = TRUE]
    /\ UNCHANGED <<storeVars, probe, custSheet, mode, sched, race, cleanup, refresh>>

\* Lines 221-238: every row of the merchant gets last_sync and
\* total_customers; a raised update ends the function.
StatusWrite ==
    LET M == {k \in RowsOf(sy.records, sy.merchant_id) : k >= sy.i} IN
    /\ sy.pc = "status_write"
    /\ IF M = {}
       THEN /\ sy' = [sy EXCEPT !.pc = "done", !.ret = TRUE]
            /\ UNCHANGED tokens
       ELSE LET k == Min(M)
                padded == PadTo(tokens, k)
            IN
            \/ /\ tokens' = [padded EXCEPT
                               ![k] = StatusCells(@, clock,
                                                  Len(sy.all_customers))]
               /\ sy' = [sy EXCEPT !.i = k + 1,
                                   !.updated_count = sy.updated_count + 1,
                                   !.writes = sy.writes + 1]
            \/ /\ sy' = [sy EXCEPT !.pc = "done", !.ret = TRUE,
                                   !.storeFailed = TRUE]
               /\ UNCHANGED tokens
    /\ UNCHANGED <<tokensExists, tokensHead, clock, call, ncalls, probe, custSheet, mode, sched, race, cleanup, refresh>>

\* sync_merchant_customers is called again for the same merchant when the
\* first call has returned (two requests to /sync/<merchant_id>, lines
\* 942-948); the Square API answers the second run as it did the first.
SyncAgain ==
    /\ mode = "twice"
    /\ sy.pc = "done"
    /\ sy.run = 1
    /\ \E d \in 0..1 :
         /\ clock + d <= Now0 + MaxClock
         /\ clock' = clock + d
    /\ sy' = [IdleSync EXCEPT
                !.pc = "tokens", !.merchant_id = sy.merchant_id,
                !.tokens0 = tokens, !.cust0 = custSheet[sy.merchant_id],
                !.run = 2, !.tape = sy.tape,
                !.first = [persisted |-> sy.persisted,
                           sheet |-> custSheet[sy.merchant_id],
                           at |-> clock]]
    /\ UNCHANGED <<tokensExists, tokensHead, tokens, call, ncalls, probe, custSheet,
                   mode, sched, race, cleanup, refresh>>

SyncStep ==
    \/ SyncBegin
    \/ SyncTokens
    \/ SearchRequest
    \/ FallbackRequest
    \/ InvoiceRequest
    \/ SyncGate
    \/ PersistOpen
    \/ PersistWrite
    \/ StatusRead
    \/ StatusWrite

----------------------------------------------------------------------------
(* The functions of the token store called on their own:                  *)
(* update_sync_status and cleanup_duplicate_merchants                     *)

\* The customer lists whose length update_sync_status is called with.
StatusArgs == {<<>>, <<cIn, cUpd>>}

\* Line 570: update_sync_status(merchant_id, len(customers)) is entered.
StatusBegin ==
    /\ mode \in {"ops", "conc"}
    /\ sy.pc = "idle"
    /\ ncalls < MaxCalls
    /\ MayEnter
    /\ \E m \in Merchants, customers \in StatusArgs :
         sy' = [IdleSync EXCEPT !.pc = "status_read", !.merchant_id = m,
                                !.all_customers = customers,
                                !.tokens0 = tokens, !.at = clock]
    /\ ncalls' = ncalls + 1
    /\ UNCHANGED <<tokensExists, tokensHead, tokens, clock, call, probe, custSheet, mode,
                   sched, race, cleanup, refresh>>

\* update_sync_status returns to its caller.
StatusReturn ==
    /\ mode \in {"ops", "conc"}
    /\ sy.pc = "done"
    /\ sy' = IdleSync
    /\ UNCHANGED <<storeVars, probe, custSheet, mode, sched, race, cleanup, refresh>>

\* Lines 130-140: rows_to_delete, the positions from k on of the records
\* whose merchant_id was seen on an earlier record.
RECURSIVE DuplicateRows(_, _, _)
DuplicateRows(records, k, seen_merchants) ==
    IF k > Len(records) THEN <<>>
    ELSE IF records[k].merchant_id \in seen_merchants
    THEN <<k>> \o DuplicateRows(records, k + 1, seen_merchants)
    ELSE DuplicateRows(records, k + 1,
                       seen_merchants \cup {records[k].merchant_id})

\* Line 143: reversed(rows_to_delete).
DeletionOrder(rows_to_delete) ==
    [k \in 1..Len(rows_to_delete) |->
        rows_to_delete[Len(rows_to_delete) + 1 - k]]

\* sheet.delete_rows(row_num) of line 144: the rows below move up by one.
DeleteRow(rows, k) ==
    IF k > Len(rows) THEN rows
    ELSE SubSeq(rows, 1, k - 1) \o SubSeq(rows, k + 1, Len(rows))

\* Lines 119-127: cleanup_duplicate_merchants is entered and connects.
CleanBegin(p) ==
    /\ mode \in {"ops", "conc"}
    /\ cleanup[p].pc = "idle"
    /\ ncalls < MaxCalls
    /\ MayEnter
    /\ \/ cleanup' = [cleanup EXCEPT ![p] = [IdleClean EXCEPT !.pc = "read"]]
       \/ \* no client, or the worksheet cannot be opened
          cleanup' = [cleanup EXCEPT ![p] =
                        [IdleClean EXCEPT !.pc = "done", !.ret = FALSE]]
    /\ ncalls' = ncalls + 1
    /\ UNCHANGED <<tokensExists, tokensHead, tokens, clock, call, probe, syncVars, mode,
                   sched, race, refresh>>

\* Lines 128-140: the records are read and the duplicates marked.
CleanRead(p) ==
    LET records == get_all_records(tokensHead, tokens) IN
    /\ cleanup[p].pc = "read"
    /\ \/ /\ tokensExists
          /\ cleanup' = [cleanup EXCEPT ![p] =
                           [@ EXCEPT !.pc = "delete", !.records = records,
                                     !.rows0 = tokens,
                                     !.rows_to_delete =
                                         DuplicateRows(records, 1, {})]]
       \/ cleanup' = [cleanup EXCEPT ![p] =
                        [@ EXCEPT !.pc = "done", !.ret = FALSE]]
    /\ UNCHANGED <<storeVars, probe, syncVars, mode, sched, race, refresh>>

\* Lines 143-150: one pass of the deleting loop, or its end.
CleanDelete(p) ==
    LET c == cleanup[p] IN
    /\ c.pc = "delete"
    /\ IF c.deleted = Len(c.rows_to_delete)
       THEN /\ cleanup' = [cleanup EXCEPT ![p] =
                             [@ EXCEPT !.pc = "done", !.ret = TRUE]]
            /\ UNCHANGED tokens
       ELSE \/ /\ tokens' =
                    DeleteRow(tokens,
                              DeletionOrder(c.rows_to_delete)[c.deleted + 1])
               /\ cleanup' = [cleanup EXCEPT ![p].deleted = c.deleted + 1]
            \/ \* delete_rows raises
               /\ cleanup' = [cleanup EXCEPT ![p] =
                                [@ EXCEPT !.pc = "done", !.ret = FALSE]]
               /\ UNCHANGED tokens
    /\ UNCHANGED <<tokensExists, tokensHead, clock, call, ncalls, probe, syncVars, mode,
                   sched, race, refresh>>

\* cleanup_duplicate_merchants returns to its caller.
CleanReturn(p) ==
    /\ cleanup[p].pc = "done"
    /\ cleanup' = [cleanup EXCEPT ![p] = IdleClean]
    /\ UNCHANGED <<storeVars, probe, syncVars, mode, sched, race, refresh>>

CleanStep(p) ==
    \/ CleanBegin(p)
    \/ CleanRead(p)
    \/ CleanDelete(p)
    \/ CleanReturn(p)

StatusStep ==
    \/ StatusBegin
    \/ StatusRead
    \/ StatusWrite
    \/ StatusReturn

----------------------------------------------------------------------------
(* refresh_and_sync (GET /api/refresh/<merchant_id>) and manual_sync      *)

\* A 200 answer of the token endpoint without the key 'refresh_token'.
NotProvided == ""

\* The bodies of the 200 answers of POST /oauth2/token.
RefreshAnswers ==
    {[access_token |-> g[1], refresh_token |-> g[2]] : g \in Grants}
    \cup {[access_token |-> "a2", refresh_token |-> NotProvided]}

\* Line 1056: token_data.get('refresh_token', refresh_token).
NewRefreshToken(token_data, refresh_token) ==
    IF token_data.refresh_token = NotProvided THEN refresh_token
    ELSE token_data.refresh_token

\* Lines 1021-1038: the stored tokens are loaded; without an active row or
\* without a refresh token the request is answered 404.
RefreshBegin ==
    /\ mode = "refresh"
    /\ refresh.pc = "idle"
    /\ sy.pc = "idle"
    /\ \E m \in Merchants, ok \in BOOLEAN :
         LET t == get_tokens_from_sheets(tokensExists, tokensHead, tokens, m, ok)
             entered == [refresh EXCEPT !.merchant_id = m, !.tokens = t,
                                        !.tokens0 = tokens,
                                        !.cust0 = custSheet]
         IN IF ~t.found
            THEN refresh' = [entered EXCEPT !.pc = "done", !.status = 404]
            ELSE IF t.refresh_token = ""
            THEN refresh' = [entered EXCEPT !.pc = "done", !.status = 404]
            ELSE refresh' = [entered EXCEPT !.pc = "post"]
    /\ UNCHANGED <<storeVars, probe, syncVars, mode, sched, race, cleanup>>

\* Lines 1040-1062, 1093-1103 and 1111-1116: the refresh token is posted to
\* the token endpoint.  A 200 answer is followed by the call of
\* save_tokens_to_sheets with the new tokens; another status is answered
\* 400, a raised request 500.
RefreshPost ==
    /\ refresh.pc = "post"
    /\ \/ \E token_data \in RefreshAnswers :
            LET new_refresh_token ==
                    NewRefreshToken(token_data, refresh.tokens.refresh_token)
            IN
            /\ refresh' = [refresh EXCEPT
                             !.pc = "save", !.post = 200,
                             !.sent = refresh.tokens.refresh_token,
                             !.new_access_token = token_data.access_token,
                             !.new_refresh_token = new_refresh_token]
            /\ call' = [call EXCEPT !["p1"] =
                          [IdleCall EXCEPT
                             !.pc = "open",
                             !.merchant_id = refresh.merchant_id,
                             !.access_token = token_data.access_token,
                             !.refresh_token = new_refresh_token,
                             !.merchant_name = refresh.tokens.merchant_name]]
            /\ ncalls' = ncalls + 1
       \/ /\ refresh' = [refresh EXCEPT
                           !.pc = "done", !.post = 400, !.status = 400,
                           !.sent = refresh.tokens.refresh_token]
          /\ UNCHANGED <<call, ncalls>>
       \/ /\ refresh' = [refresh EXCEPT
                           !.pc = "done", !.post = 0, !.status = 500,
                           !.sent = refresh.tokens.refresh_token]
          /\ UNCHANGED <<call, ncalls>>
    /\ UNCHANGED <<tokensExists, tokensHead, tokens, clock, probe, syncVars, mode, sched,
                   race, cleanup>>

\* A handler that goes on to the sync whatever save_tokens_to_sheets
\* returned.
RefreshSavedIgnoresResult ==
    /\ refresh.pc = "save"
    /\ call["p1"].pc = "done"
    /\ refresh' = [refresh EXCEPT !.pc = "sync", !.saved = call["p1"].ret,
                                  !.stored = tokens]
    /\ sy' = [IdleSync EXCEPT !.pc = "tokens",
                              !.merchant_id = refresh.merchant_id,
                              !.tokens0 = tokens,
                              !.cust0 = custSheet[refresh.merchant_id]]
    /\ UNCHANGED <<storeVars, probe, custSheet, mode, sched, race, cleanup>>

\* Lines 1062-1067 and 1086-1091: save_tokens_to_sheets has returned; on
\* True sync_merchant_customers is called, on False the answer is 500.
RefreshSaved ==
    /\ refresh.pc = "save"
    /\ call["p1"].pc = "done"
    /\ IF call["p1"].ret
       THEN /\ refresh' = [refresh EXCEPT !.pc = "sync", !.saved = TRUE,
                                          !.stored = tokens]
            /\ sy' = [IdleSync EXCEPT !.pc = "tokens",
                                      !.merchant_id = refresh.merchant_id,
                                      !.tokens0 = tokens,
                                      !.cust0 = custSheet[refresh.merchant_id]]
       ELSE /\ refresh' = [refresh EXCEPT !.pc = "done", !.status = 500]
            /\ UNCHANGED sy
    /\ UNCHANGED <<storeVars, probe, custSheet, mode, sched, race, cleanup>>

\* Lines 1066-1091 and 1111-1118: the sync has returned and both results
\* are answered 200; an exception that leaves it is answered 500.
RefreshSynced ==
    /\ refresh.pc = "sync"
    /\ sy.pc \in {"done", "raised"}
    /\ refresh' = IF sy.pc = "done"
                  THEN [refresh EXCEPT !.pc = "done", !.status = 200,
                                       !.success = sy.ret]
                  ELSE [refresh EXCEPT !.pc = "done", !.status = 500]
    /\ UNCHANGED <<storeVars, probe, syncVars, mode, sched, race, cleanup>>

\* Lines 942-948: manual_sync calls sync_merchant_customers for the
\* merchant of the request, as every other caller of the sync does.
ManualSync ==
    /\ mode = "refresh"
    /\ refresh.pc = "idle"
    /\ SyncBegin

----------------------------------------------------------------------------
(* Specifications *)

----------------------------------------------------------------------------
(* The passes over the merchants: background_sync, force_sync_all and     *)
(* cron_sync.  The sync they call runs step by step, as everywhere.       *)

DefaultThresholdDays == 3

\* An environment variable, and a header of a request.
Unset == [set |-> FALSE, value |-> ""]
EnvValue(v) == [set |-> TRUE, value |-> v]
NoHeader == [present |-> FALSE, value |-> ""]
Header(v) == [present |-> TRUE, value |-> v]

\* str() of what os.environ.get returns, as an f-string formats it.
FormatEnv(env) == IF env.set THEN env.value ELSE "None"

\* Line 1232: expected_token.
ExpectedToken(env) == "Bearer " \o FormatEnv(env)

\* Line 1234 negated: the request passes the test of cron_sync.
CronAuthorized(header, env) ==
    header.present /\ header.value = ExpectedToken(env)

Secrets == {Unset, EnvValue("s1"), EnvValue("None")}
Headers == {NoHeader, Header("Bearer s1"), Header("Bearer None"),
            Header("Bearer s2"), Header("s1"), Header("Bearer ")}

\* list_merchants (GET /api/merchants): the configurations of API_KEY and
\* the X-API-Key headers of a request.
ApiKeys == {Unset, EnvValue("k1"), EnvValue("")}
ApiKeyHeaders == {NoHeader, Header("k1"), Header("k2"), Header("")}

\* Line 1221 negated: request.headers.get('X-API-Key') is equal to
\* os.environ.get('API_KEY'); each of the two is None when it is missing.
ApiKeyAuthorized(header, env) ==
    IF header.present
    THEN env.set /\ header.value = env.value
    ELSE ~env.set

\* Lines 1217-1225: list_merchants answers 401, or the active merchants.
ListMerchantsRequest ==
    /\ probe = NoProbe
    /\ \E header \in ApiKeyHeaders, env \in ApiKeys, ok \in BOOLEAN :
         probe' =
            IF ApiKeyAuthorized(header, env)
            THEN [op |-> "list_merchants", header |-> header, api_key |-> env,
                  status |-> 200,
                  merchants |->
                      get_all_active_merchants(tokensExists, tokensHead, tokens, ok)]
            ELSE [op |-> "list_merchants", header |-> header, api_key |-> env,
                  status |-> 401, merchants |-> <<>>]
    /\ UNCHANGED <<storeVars, syncVars, mode, sched, race, cleanup, refresh>>

IdlePass(kind) ==
    [kind |-> kind,
     pc |-> IF kind = "background" THEN "cycle" ELSE "request",
     merchants |-> <<>>, i |-> 1,
     synced_count |-> 0, skipped_count |-> 0, failed_count |-> 0,
     results |-> <<>>,
     secret |-> Unset,       \* CRON_TOKEN of the deployment
     header |-> NoHeader,    \* the Authorization header of the request
     status |-> 0,           \* the HTTP status answered, 0 while there is none
     \* what the pass has done so far
     authorized |-> FALSE,   \* the request went past line 1235
     checked |-> <<>>,       \* the merchants the loop has come to
     calls |-> <<>>,         \* the merchants sync_merchant_customers was called for
     raised |-> FALSE,       \* an exception ended the pass
     hadError |-> FALSE,     \* background: an earlier cycle ended in line 666
     hadCycle |-> FALSE]     \* background: an earlier cycle ran to line 664

\* Whether a pass of the kind syncs a merchant with this last_sync: lines
\* 620-636 of background_sync, line 1245 of cron_sync; force_sync_all
\* (lines 1133-1138) syncs every merchant.
PassGate(kind, last_sync, now) ==
    IF kind = "force" THEN TRUE
    ELSE IF kind = "background"
    THEN InlineGate(last_sync, SyncThresholdDays, now)
    ELSE should_sync_merchant(last_sync, DefaultThresholdDays, now)

\* An exception leaves the loop over the merchants: background_sync
\* catches it at line 666 and sleeps; force_sync_all and cron_sync do not
\* catch it and the request is answered 500.
AfterException(p) ==
    IF p.kind = "background"
    THEN [p EXCEPT !.pc = "cooldown", !.raised = TRUE, !.hadError = TRUE]
    ELSE [p EXCEPT !.pc = "done", !.raised = TRUE, !.status = 500]

\* Lines 602-610: a cycle of background_sync starts and lists the merchants.
BgCycle ==
    /\ sched.pc = "cycle"
    /\ \E ok \in BOOLEAN :
         sched' = [sched EXCEPT
                     !.pc = "check", !.i = 1,
                     !.merchants = get_all_active_merchants(tokensExists, tokensHead, tokens, ok),
                     !.synced_count = 0, !.skipped_count = 0,
                     !.failed_count = 0,
                     !.checked = <<>>, !.calls = <<>>, !.raised = FALSE]
    /\ UNCHANGED <<storeVars, probe, syncVars, mode, race, cleanup, refresh>>

\* Lines 1124-1132: force_sync_all lists the merchants.
ForceRequest ==
    /\ sched.pc = "request"
    /\ sched.kind = "force"
    /\ \E ok \in BOOLEAN :
         LET merchants == get_all_active_merchants(tokensExists, tokensHead, tokens, ok)
         IN sched' = IF merchants = <<>>
                     THEN [sched EXCEPT !.pc = "done", !.status = 200]
                     ELSE [sched EXCEPT !.pc = "check", !.merchants = merchants]
    /\ UNCHANGED <<storeVars, probe, syncVars, mode, race, cleanup, refresh>>

\* Lines 1230-1241: cron_sync tests the Authorization header, then lists
\* the merchants.
CronRequest ==
    /\ sched.pc = "request"
    /\ sched.kind = "cron"
    /\ \E header \in Headers, ok \in BOOLEAN :
         IF CronAuthorized(header, sched.secret)
         THEN sched' = [sched EXCEPT
                          !.pc = "check", !.header = header,
                          !.authorized = TRUE,
                          !.merchants =
                              get_all_active_merchants(tokensExists, tokensHead, tokens, ok)]
         ELSE sched' = [sched EXCEPT !.pc = "done", !.header = header,
                                     !.status = 401]
    /\ UNCHANGED <<storeVars, probe, syncVars, mode, race, cleanup, refresh>>

\* Lines 612-636 and 649-651 of background_sync, lines 1133-1135 of
\* force_sync_all, lines 1243-1245 and 1254-1256 of cron_sync: the loop
\* comes to the next merchant, or ends.
PassCheck ==
    /\ sched.pc = "check"
    /\ IF sched.i > Len(sched.merchants)
       THEN sched' = IF sched.kind = "background"
                     THEN [sched EXCEPT !.pc = "sleep"]
                     ELSE [sched EXCEPT !.pc = "done", !.status = 200]
       ELSE LET merchant == sched.merchants[sched.i]
                here == [sched EXCEPT
                           !.checked = Append(@, merchant.merchant_id)]
            IN IF PassGate(sched.kind, merchant.last_sync, clock)
               THEN sched' = [here EXCEPT !.pc = "sync"]
               ELSE sched' =
                      [here EXCEPT
                         !.i = @ + 1,
                         !.skipped_count =
                             IF sched.kind = "background" THEN @ + 1 ELSE @,
                         !.results =
                             IF sched.kind = "cron"
                             THEN Append(@, "skipped") ELSE @]
    /\ UNCHANGED <<storeVars, probe, syncVars, mode, race, cleanup, refresh>>

\* Lines 640-645, 1140-1143 and 1249-1253: the result of the sync is counted.
Counted(p, success) ==
    [p EXCEPT
       !.pc = "check", !.i = @ + 1,
       !.synced_count = IF success /\ p.kind # "force" THEN @ + 1 ELSE @,
       !.failed_count = IF ~success /\ p.kind = "background" THEN @ + 1 ELSE @,
       !.results = IF p.kind = "background" THEN @
                   ELSE Append(@, IF success THEN "ok" ELSE "failed")]

\* Lines 638, 1138 and 1247: sync_merchant_customers is called for the
\* merchant (lines 556-558).
PassSync ==
    /\ sched.pc = "sync"
    /\ sy.pc = "idle"
    /\ LET m == sched.merchants[sched.i].merchant_id IN
       /\ sched' = [sched EXCEPT !.pc = "in_sync", !.calls = Append(@, m)]
       /\ sy' = [IdleSync EXCEPT !.pc = "tokens", !.merchant_id = m,
                                 !.tokens0 = tokens, !.cust0 = custSheet[m]]
    /\ UNCHANGED <<storeVars, probe, custSheet, mode, race, cleanup, refresh>>

\* Lines 638-647, 1138-1143 and 1247-1253: the sync has returned True or
\* False and the loop counts the merchant.
PassReturn ==
    /\ sched.pc = "in_sync"
    /\ sy.pc = "done"
    /\ sched' = Counted(sched, sy.ret)
    /\ sy' = IdleSync
    /\ UNCHANGED <<storeVars, probe, custSheet, mode, race, cleanup, refresh>>

\* Lines 638, 1138 and 1247 when an exception leaves the sync: no loop
\* has a try around the call.
PassRaised ==
    /\ sched.pc = "in_sync"
    /\ sy.pc = "raised"
    /\ sched' = AfterException(sched)
    /\ sy' = IdleSync
    /\ UNCHANGED <<storeVars, probe, custSheet, mode, race, cleanup, refresh>>

\* Lines 653-664: the summary, then the sleep until the next cycle.
BgSleep ==
    /\ sched.pc = "sleep"
    /\ \E d \in 0..1 :
         /\ clock + d <= Now0 + MaxClock
         /\ clock' = clock + d
    /\ sched' = [sched EXCEPT !.pc = "cycle", !.hadCycle = TRUE]
    /\ UNCHANGED <<tokensExists, tokensHead, tokens, call, ncalls, probe, syncVars,
                   mode, race, cleanup, refresh>>

\* Lines 666-669: the sleep after an exception, then the next cycle.
BgCooldown ==
    /\ sched.pc = "cooldown"
    /\ \E d \in 0..1 :
         /\ clock + d <= Now0 + MaxClock
         /\ clock' = clock + d
    /\ sched' = [sched EXCEPT !.pc = "cycle"]
    /\ UNCHANGED <<tokensExists, tokensHead, tokens, call, ncalls, probe, syncVars,
                   mode, race, cleanup, refresh>>

----------------------------------------------------------------------------
(* Syncs of merchants on concurrent threads: a request handler           *)
(* (manual_sync, force_sync_all, cron_sync), initial_sync and            *)
(* background_sync call sync_merchant_customers without a lock.  The     *)
(* fetch shares no state with other threads and is one step here.        *)

Threads == {"t1", "t2"}

IdleRaceSync ==
    [pc |-> "idle", merchant_id |-> "", customers |-> <<>>, ret |-> FALSE,
     records |-> <<>>, i |-> 1,   \* of update_sync_status
     storeFailed |-> FALSE]

\* What fetch_all_customers returns to a thread.
RaceFetches == {<<>>, <<cUpd>>, <<cIn, cUpd>>}

\* The thread is between the entry of sync_merchant_customers (line 556)
\* and its return after update_sync_status (line 572).
InSync(r) == r.pc \in {"fetch", "open", "write", "status", "status_write"}

\* Lines 556-563: the sync is entered and the credential is loaded.
RaceBegin(t) ==
    /\ race[t].pc = "idle"
    /\ \E m \in Merchants, ok \in BOOLEAN :
         LET tok == get_tokens_from_sheets(tokensExists, tokensHead, tokens, m, ok) IN
         race' = [race EXCEPT ![t] =
                     IF tok.found
                     THEN [@ EXCEPT !.pc = "fetch", !.merchant_id = m]
                     ELSE [@ EXCEPT !.pc = "done", !.merchant_id = m,
                                    !.ret = FALSE]]
    /\ UNCHANGED <<storeVars, probe, syncVars, mode, sched, cleanup, refresh>>

\* Line 565: fetch_all_customers returns.
RaceFetch(t) ==
    /\ race[t].pc = "fetch"
    /\ \E customers \in RaceFetches :
         race' = [race EXCEPT ![t] = [@ EXCEPT !.pc = "open",
                                               !.customers = customers]]
    /\ UNCHANGED <<storeVars, probe, syncVars, mode, sched, cleanup, refresh>>

\* Lines 242-256 of save_customer_data: the sheet is cleared, or created.
RaceOpen(t) ==
    /\ race[t].pc = "open"
    /\ \/ /\ custSheet' = [custSheet EXCEPT ![race[t].merchant_id] =
                                               ClearedSheet(@)]
          /\ race' = [race EXCEPT ![t] = [@ EXCEPT !.pc = "write"]]
       \/ /\ race' = [race EXCEPT ![t] = [@ EXCEPT !.pc = "done",
                                                   !.ret = FALSE,
                                                   !.storeFailed = TRUE]]
          /\ UNCHANGED custSheet
    /\ UNCHANGED <<storeVars, probe, sy, mode, sched, cleanup, refresh>>

\* Lines 307-317 of save_customer_data: the batch update.
RaceWrite(t) ==
    /\ race[t].pc = "write"
    /\ IF Len(race[t].customers) + 1 > 1
       THEN \/ /\ custSheet' =
                    [custSheet EXCEPT ![race[t].merchant_id] =
                        WrittenSheet(@, CustomerRows(race[t].customers, clock))]
               /\ race' = [race EXCEPT ![t] = [@ EXCEPT !.pc = "status"]]
            \/ /\ race' = [race EXCEPT ![t] = [@ EXCEPT !.pc = "done",
                                                        !.ret = FALSE,
                                                        !.storeFailed = TRUE]]
               /\ UNCHANGED custSheet
       ELSE /\ race' = [race EXCEPT ![t] = [@ EXCEPT !.pc = "status"]]
            /\ UNCHANGED custSheet
    /\ UNCHANGED <<storeVars, probe, sy, mode, sched, cleanup, refresh>>

\* Lines 570-572 with lines 209-219 of update_sync_status, whose result is
\* not looked at: the records of 'tokens' are read.
RaceStatusRead(t) ==
    /\ race[t].pc = "status"
    /\ \/ /\ tokensExists
          /\ race' = [race EXCEPT ![t] =
                        [@ EXCEPT !.pc = "status_write", !.i = 1,
                                  !.records =
                                      get_all_records(tokensHead, tokens)]]
       \/ race' = [race EXCEPT ![t] = [@ EXCEPT !.pc = "done", !.ret = TRUE,
                                                !.storeFailed = TRUE]]
    /\ UNCHANGED <<storeVars, probe, syncVars, mode, sched, cleanup, refresh>>

\* Lines 221-238: one sheet.update for the next row of the merchant among
\* the records read; a raised update ends the function.
RaceStatusWrite(t) ==
    LET r == race[t]
        M == {k \in RowsOf(r.records, r.merchant_id) : k >= r.i}
    IN
    /\ r.pc = "status_write"
    /\ IF M = {}
       THEN /\ race' = [race EXCEPT ![t] = [@ EXCEPT !.pc = "done",
                                                     !.ret = TRUE]]
            /\ UNCHANGED tokens
       ELSE LET k == Min(M)
                padded == PadTo(tokens, k)
            IN
            \/ /\ tokens' = [padded EXCEPT
                               ![k] = StatusCells(@, clock, Len(r.customers))]
               /\ race' = [race EXCEPT ![t] = [@ EXCEPT !.i = k + 1]]
            \/ /\ race' = [race EXCEPT ![t] = [@ EXCEPT !.pc = "done",
                                                        !.ret = TRUE,
                                                        !.storeFailed = TRUE]]
               /\ UNCHANGED tokens
    /\ UNCHANGED <<tokensExists, tokensHead, clock, call, ncalls, probe, syncVars,
                   mode, sched, cleanup, refresh>>

RaceStep(t) ==
    \/ RaceBegin(t)
    \/ RaceFetch(t)
    \/ RaceOpen(t)
    \/ RaceWrite(t)
    \/ RaceStatusRead(t)
    \/ RaceStatusWrite(t)

vars == <<tokensExists, tokensHead, tokens, clock, call, ncalls, probe, custSheet, sy, mode,
          sched, race, cleanup, refresh>>

InitStore ==
    /\ tokensExists \in BOOLEAN
    /\ tokensHead = (IF tokensExists THEN HeaderRow ELSE BlankRow)
    /\ tokens = <<>>
    /\ clock = 0
    /\ call = [p \in Procs |-> IdleCall]
    /\ ncalls = 0
    /\ probe = NoProbe
    /\ custSheet = [m \in Merchants |-> NoSheet]
    /\ sy = IdleSync
    /\ sched = NoPass
    /\ race = NoRace
    /\ cleanup = [p \in Procs |-> IdleClean]
    /\ refresh = NoRefresh

\* Request handlers run on concurrent threads (OAuth callback, refresh).
Init ==
    /\ InitStore
    /\ mode = "threads"

Next ==
    \/ \E p \in Procs : SaveStep(p)
    \/ Tick

Spec == Init /\ [][Next]_vars

\* One caller at a time: the calls of save_tokens_to_sheets are sequential.
InitSeq ==
    /\ InitStore
    /\ mode = "sequential"

NextSeq ==
    \/ SaveStep("p1")
    \/ Tick

SpecSeq == InitSeq /\ [][NextSeq]_vars

\* The read-only functions of the token store, over every content of the
\* worksheet of at most MaxRows rows.
Statuses == {"active", "revoked"}

SheetRows ==
    {[BlankRow EXCEPT !.merchant_id = m, !.access_token = "a1",
                      !.refresh_token = "r1", !.updated_at = 0,
                      !.status = s, !.merchant_name = n,
                      !.total_customers = 0] :
        m \in Merchants, s \in Statuses, n \in Names}

SheetContents ==
    UNION {[1..n -> SheetRows] : n \in 0..MaxRows}

InitRead ==
    /\ tokensExists \in BOOLEAN
    /\ tokens \in SheetContents
    /\ \/ tokensHead = HeaderRow
       \/ \* the worksheet never got its header row
          tokensExists /\ tokensHead \in {r \in SheetRows : r.status = "active"}
    /\ clock = 0
    /\ call = [p \in Procs |-> IdleCall]
    /\ ncalls = 0
    /\ probe = NoProbe
    /\ custSheet = [m \in Merchants |-> NoSheet]
    /\ sy = IdleSync
    /\ sched = NoPass
    /\ race = NoRace
    /\ cleanup = [p \in Procs |-> IdleClean]
    /\ refresh = NoRefresh
    /\ mode = "read"

NextRead ==
    \/ ListActive
    \/ ListMerchantsRequest

SpecRead == InitRead /\ [][NextRead]_vars

\* One sync of one merchant, over the states the worksheets can be in.
activeRow(m, a) ==
    [BlankRow EXCEPT !.merchant_id = m, !.access_token = a,
                     !.refresh_token = "r1", !.updated_at = 0,
                     !.status = "active", !.total_customers = 0]

SyncSheets ==
    {<<>>,
     <<activeRow("m1", "a1")>>,
     <<[activeRow("m1", "a1") EXCEPT !.status = "revoked"]>>,
     <<activeRow("m2", "a2"), activeRow("m1", "a1"), activeRow("m1", "a2")>>}

\* A sheet an earlier sync wrote.
OldSheet ==
    [exists |-> TRUE, header |-> TRUE,
     rows |-> <<CustomerRow(Customer("k0", 0, 0), 0)>>]

InitSync ==
    /\ tokensExists \in BOOLEAN
    /\ tokensHead = (IF tokensExists THEN HeaderRow ELSE BlankRow)
    /\ tokens \in SyncSheets
    /\ tokensExists = FALSE => tokens = <<>>
    /\ clock = Now0
    /\ call = [p \in Procs |-> IdleCall]
    /\ ncalls = 0
    /\ probe = NoProbe
    /\ custSheet \in [Merchants -> {NoSheet, OldSheet}]
    /\ sy = IdleSync
    /\ sched = NoPass
    /\ race = NoRace
    /\ cleanup = [p \in Procs |-> IdleClean]
    /\ refresh = NoRefresh
    /\ mode = "sync"

NextSync ==
    \/ SyncStep

SpecSync == InitSync /\ [][NextSync]_vars

\* Two runs of the sync of one merchant, one after the other, on external
\* data that does not change.
InitTwice ==
    /\ tokensExists = TRUE
    /\ tokensHead = HeaderRow
    /\ tokens \in {<<activeRow("m1", "a1")>>}
    /\ clock = Now0
    /\ call = [p \in Procs |-> IdleCall]
    /\ ncalls = 0
    /\ probe = NoProbe
    /\ \E sheet \in {NoSheet, OldSheet} :
         custSheet = [m \in Merchants |-> IF m = "m1" THEN sheet ELSE NoSheet]
    /\ sy = IdleSync
    /\ sched = NoPass
    /\ race = NoRace
    /\ cleanup = [p \in Procs |-> IdleClean]
    /\ refresh = NoRefresh
    /\ mode = "twice"

NextTwice ==
    \/ SyncStep
    \/ SyncAgain

SpecTwice == InitTwice /\ [][NextTwice]_vars

\* The sync of a merchant whose customers endpoints serve records with
\* malformed timestamps.
InitMalformed ==
    /\ tokensExists = TRUE
    /\ tokensHead = HeaderRow
    /\ tokens = <<activeRow("m1", "a1")>>
    /\ clock = Now0
    /\ call = [p \in Procs |-> IdleCall]
    /\ ncalls = 0
    /\ probe = NoProbe
    /\ custSheet = [m \in Merchants |-> NoSheet]
    /\ sy = IdleSync
    /\ sched = NoPass
    /\ race = NoRace
    /\ cleanup = [p \in Procs |-> IdleClean]
    /\ refresh = NoRefresh
    /\ mode = "malformed"

NextMalformed ==
    \/ SyncStep

SpecMalformed == InitMalformed /\ [][NextMalformed]_vars

\* One call of a function of the token store with no other call executing,
\* over the contents of the worksheet: rows of two merchants, never synced
\* or synced before, active or revoked, with and without duplicates.
OpsRow(m, synced) ==
    IF synced
    THEN [BlankRow EXCEPT !.merchant_id = m, !.access_token = "a2",
                          !.refresh_token = "r2", !.updated_at = 0,
                          !.status = "revoked", !.merchant_name = "n1",
                          !.last_sync = 0, !.total_customers = 7]
    ELSE [BlankRow EXCEPT !.merchant_id = m, !.access_token = "a1",
                          !.refresh_token = "r1", !.updated_at = 0,
                          !.status = "active", !.total_customers = 0]

OpsRows == {OpsRow(m, synced) : m \in Merchants, synced \in BOOLEAN}

\* Every sheet of at most MaxRows rows, and sheets with one more row that
\* hold a merchant three times around a row of the other merchant.
OpsSheets ==
    UNION {[1..n -> OpsRows] : n \in 0..MaxRows}
    \cup {[k \in 1..(MaxRows + 1) |->
             IF k = MaxRows THEN OpsRow(pair[2], FALSE)
             ELSE OpsRow(pair[1], k = 2)] :
             pair \in {q \in Merchants \X Merchants : q[1] # q[2]}}

\* The sheets whose row 1 is not the header row: a save created the
\* worksheet and its append_row(headers) raised (line 54), and later saves
\* appended their rows from row 1 on.
HeadlessSheets ==
    {<<BlankRow, <<>>>>}
    \cup {<<head, rows>> :
             head \in {OpsRow(m, FALSE) : m \in Merchants},
             rows \in UNION {[1..n -> {OpsRow(m, FALSE) : m \in Merchants}] :
                               n \in 0..(MaxRows - 1)}}

InitOps ==
    /\ \/ /\ tokensExists = TRUE
          /\ tokensHead = HeaderRow
          /\ tokens \in OpsSheets
       \/ /\ tokensExists = TRUE
          /\ \E grid \in HeadlessSheets :
               tokensHead = grid[1] /\ tokens = grid[2]
       \/ /\ tokensExists = FALSE
          /\ tokensHead = BlankRow
          /\ tokens = <<>>
    /\ clock = 0
    /\ call = [p \in Procs |-> IdleCall]
    /\ ncalls = 0
    /\ probe = NoProbe
    /\ custSheet = [m \in Merchants |-> NoSheet]
    /\ sy = IdleSync
    /\ sched = NoPass
    /\ race = NoRace
    /\ cleanup = [p \in Procs |-> IdleClean]
    /\ refresh = NoRefresh
    /\ mode = "ops"

NextOps ==
    \/ SaveStep("p1")
    \/ StatusStep
    \/ CleanStep("p1")
    \/ Tick

SpecOps == InitOps /\ [][NextOps]_vars

\* The functions of the token store called from concurrent threads: the
\* request handlers (OAuth callback, refresh, /api/cleanup-duplicates) and
\* the syncs.
InitConc ==
    /\ \/ /\ tokensExists = TRUE
          /\ tokensHead = HeaderRow
          /\ tokens \in [1..MaxRows -> {OpsRow(m, FALSE) : m \in Merchants}]
       \/ /\ tokensExists = FALSE
          /\ tokensHead = BlankRow
          /\ tokens = <<>>
    /\ clock = 0
    /\ call = [p \in Procs |-> IdleCall]
    /\ ncalls = 0
    /\ probe = NoProbe
    /\ custSheet = [m \in Merchants |-> NoSheet]
    /\ sy = IdleSync
    /\ sched = NoPass
    /\ race = NoRace
    /\ cleanup = [p \in Procs |-> IdleClean]
    /\ refresh = NoRefresh
    /\ mode = "conc"

NextConc ==
    \/ \E p \in Procs : SaveStep(p)
    \/ StatusStep
    \/ \E p \in Procs : CleanStep(p)

SpecConc == InitConc /\ [][NextConc]_vars

\* The passes over the merchants, over 'tokens' sheets whose merchants are
\* due, not due, never synced or carry a last_sync that does not parse.
PassTimes == {NoTs, BadTs, Now0, Now0 - SyncThresholdDays * TicksPerDay}

PassRow(m, last_sync, updated_at) ==
    [activeRow(m, "a1") EXCEPT !.last_sync = last_sync,
                               !.updated_at = updated_at]

PassSheets ==
    {<<>>}
    \cup {<<PassRow("m1", t, 0)>> : t \in PassTimes}
    \cup {<<PassRow("m1", t, 0), PassRow("m2", u, Now0)>> :
             t \in PassTimes, u \in PassTimes}
    \cup {<<[PassRow("m1", NoTs, 0) EXCEPT !.status = "revoked"],
            PassRow("m2", NoTs, Now0)>>}

InitPass ==
    /\ tokensExists = TRUE
    /\ tokensHead = HeaderRow
    /\ tokens \in PassSheets
    /\ clock = Now0
    /\ call = [p \in Procs |-> IdleCall]
    /\ ncalls = 0
    /\ probe = NoProbe
    /\ custSheet = [m \in Merchants |-> NoSheet]
    /\ sy = IdleSync
    /\ race = NoRace
    /\ cleanup = [p \in Procs |-> IdleClean]
    /\ refresh = NoRefresh

\* One pass of any of the three kinds; background_sync goes on to further
\* cycles.
InitSched ==
    /\ InitPass
    /\ sched \in {IdlePass("background"), IdlePass("force")}
                   \cup {[IdlePass("cron") EXCEPT !.secret = s] : s \in Secrets}
    /\ mode = "sched"

NextSched ==
    \/ BgCycle
    \/ ForceRequest
    \/ CronRequest
    \/ PassCheck
    \/ PassSync
    \/ SyncTokens
    \/ SearchRequest
    \/ FallbackRequest
    \/ InvoiceRequest
    \/ RequestBlocks
    \/ SyncGate
    \/ PersistOpen
    \/ PersistWrite
    \/ StatusRead
    \/ StatusWrite
    \/ PassReturn
    \/ PassRaised
    \/ BgSleep
    \/ BgCooldown
    \/ Tick

SpecSched == InitSched /\ [][NextSched]_vars

\* The thread of background_sync alone (lines 1379-1381).  The thread is
\* scheduled: whenever it can take a step it takes one.  A request that is
\* not answered leaves it without a step to take.
InitLoop ==
    /\ InitPass
    /\ sched = IdlePass("background")
    /\ mode = "loop"

NextLoop ==
    \/ BgCycle
    \/ PassCheck
    \/ PassSync
    \/ SyncTokens
    \/ SearchRequest
    \/ FallbackRequest
    \/ InvoiceRequest
    \/ RequestBlocks
    \/ SyncGate
    \/ PersistOpen
    \/ PersistWrite
    \/ StatusRead
    \/ StatusWrite
    \/ PassReturn
    \/ PassRaised
    \/ BgSleep
    \/ BgCooldown
    \/ Tick

SpecLoop == InitLoop /\ [][NextLoop]_vars /\ WF_vars(NextLoop)

\* Two threads that each run one sync.
InitRace ==
    /\ tokensExists = TRUE
    /\ tokensHead = HeaderRow
    /\ tokens \in {<<activeRow("m1", "a1")>>,
                   <<activeRow("m1", "a1"), activeRow("m2", "a2")>>,
                   <<activeRow("m1", "a1"), activeRow("m1", "a2")>>}
    /\ clock = Now0
    /\ call = [p \in Procs |-> IdleCall]
    /\ ncalls = 0
    /\ probe = NoProbe
    /\ custSheet \in [Merchants -> {NoSheet, OldSheet}]
    /\ sy = IdleSync
    /\ sched = NoPass
    /\ race = [t \in Threads |-> IdleRaceSync]
    /\ cleanup = [p \in Procs |-> IdleClean]
    /\ refresh = NoRefresh
    /\ mode = "race"

NextRace ==
    \E t \in Threads : RaceStep(t)

SpecRace == InitRace /\ [][NextRace]_vars

\* The client-side date filter of either path, over customers whose
\* timestamps lie around the window's ends.
FilterTimes ==
    {NoTs, BadTs, 0,
     CutoffAt(Now0, DaysBack) - TicksPerDay,
     CutoffAt(Now0, DaysBack) - 1,
     CutoffAt(Now0, DaysBack),
     Now0 - 1,
     Now0 + TicksPerDay}

\* Lines 432-457 for a page of one customer.
FilterBySearch ==
    /\ probe.op = "customer"
    /\ probe' = [op |-> "search_filter", customer |-> probe.customer,
                 kept |-> SearchFilter(<<probe.customer>>, clock, DaysBack) # <<>>]
    /\ UNCHANGED <<storeVars, syncVars, mode, sched, race, cleanup, refresh>>

\* Lines 513-538 for a page of one customer.
FilterByFallback ==
    /\ probe.op = "customer"
    /\ probe' = [op |-> "fallback_filter", customer |-> probe.customer,
                 kept |-> FallbackFilter(<<probe.customer>>, clock, DaysBack) # <<>>]
    /\ UNCHANGED <<storeVars, syncVars, mode, sched, race, cleanup, refresh>>

\* The same customer goes through the filter of lines 432-457 and through
\* the filter of lines 513-538.
FilterByBoth ==
    /\ probe.op = "customer"
    /\ probe' = [op |-> "both_filters", customer |-> probe.customer,
                 search |-> SearchFilter(<<probe.customer>>, clock, DaysBack) # <<>>,
                 fallback |-> FallbackFilter(<<probe.customer>>, clock, DaysBack) # <<>>]
    /\ UNCHANGED <<storeVars, syncVars, mode, sched, race, cleanup, refresh>>

InitFilter ==
    /\ tokensExists = TRUE
    /\ tokensHead = HeaderRow
    /\ tokens = <<>>
    /\ clock = Now0
    /\ call = [p \in Procs |-> IdleCall]
    /\ ncalls = 0
    /\ probe \in {[op |-> "customer", customer |-> Customer("k1", c, u)] :
                     c \in FilterTimes, u \in FilterTimes}
    /\ custSheet = [m \in Merchants |-> NoSheet]
    /\ sy = IdleSync
    /\ sched = NoPass
    /\ race = NoRace
    /\ cleanup = [p \in Procs |-> IdleClean]
    /\ refresh = NoRefresh
    /\ mode = "filter"

NextFilter ==
    \/ FilterBySearch
    \/ FilterByFallback
    \/ FilterByBoth

SpecFilter == InitFilter /\ [][NextFilter]_vars

\* The sync gate, over thresholds and over last_sync values around the
\* threshold's edge.
MaxThreshold == 3
Thresholds == 0..MaxThreshold

GateTimes ==
    {NoTs, BadTs, 0, Now0 + 1, Now0, Now0 - 1, Now0 - TicksPerDay,
     Now0 - SyncThresholdDays * TicksPerDay + 1,
     Now0 - SyncThresholdDays * TicksPerDay,
     Now0 - SyncThresholdDays * TicksPerDay - 1}

GateByFunction ==
    /\ mode = "gate"
    /\ probe.op = "gate_input"
    /\ probe' = [op |-> "should_sync_merchant",
                 last_sync |-> probe.last_sync, threshold |-> probe.threshold,
                 result |-> should_sync_merchant(probe.last_sync,
                                                 probe.threshold, clock)]
    /\ UNCHANGED <<storeVars, syncVars, mode, sched, race, cleanup, refresh>>

GateInline ==
    /\ mode = "gate"
    /\ probe.op = "gate_input"
    /\ probe' = [op |-> "inline_gate",
                 last_sync |-> probe.last_sync, threshold |-> probe.threshold,
                 result |-> InlineGate(probe.last_sync, probe.threshold, clock)]
    /\ UNCHANGED <<storeVars, syncVars, mode, sched, race, cleanup, refresh>>

\* The same last_sync goes through both gates: under one threshold, and as
\* a cycle of background_sync and a cron_sync apply them.
GateByBoth ==
    /\ mode = "gate"
    /\ probe.op = "gate_input"
    /\ probe' = [op |-> "both_gates",
                 last_sync |-> probe.last_sync, threshold |-> probe.threshold,
                 function |-> should_sync_merchant(probe.last_sync,
                                                   probe.threshold, clock),
                 inline |-> InlineGate(probe.last_sync, probe.threshold, clock),
                 background |-> PassGate("background", probe.last_sync, clock),
                 cron |-> PassGate("cron", probe.last_sync, clock)]
    /\ UNCHANGED <<storeVars, syncVars, mode, sched, race, cleanup, refresh>>

InitGate ==
    /\ tokensExists = TRUE
    /\ tokensHead = HeaderRow
    /\ tokens = <<>>
    /\ clock = Now0
    /\ call = [p \in Procs |-> IdleCall]
    /\ ncalls = 0
    /\ probe \in {[op |-> "gate_input", last_sync |-> t, threshold |-> d] :
                     t \in GateTimes, d \in Thresholds}
    /\ custSheet = [m \in Merchants |-> NoSheet]
    /\ sy = IdleSync
    /\ sched = NoPass
    /\ race = NoRace
    /\ cleanup = [p \in Procs |-> IdleClean]
    /\ refresh = NoRefresh
    /\ mode = "gate"

NextGate ==
    \/ GateByFunction
    \/ GateInline
    \/ GateByBoth

SpecGate == InitGate /\ [][NextGate]_vars

\* One request to refresh_and_sync or to manual_sync, over token sheets
\* with an active row, with only a revoked row, with a revoked row before
\* the active one, with two active rows, and with an active row that has
\* no refresh token.
RefreshSheets ==
    {<<>>,
     <<activeRow("m1", "a1")>>,
     <<[activeRow("m1", "a2") EXCEPT !.status = "revoked"]>>,
     <<[activeRow("m1", "a2") EXCEPT !.status = "revoked"],
       activeRow("m2", "a1")>>,
     <<[activeRow("m1", "a2") EXCEPT !.status = "revoked"],
       activeRow("m1", "a1")>>,
     <<activeRow("m1", "a1"), activeRow("m2", "a1"),
       [activeRow("m1", "a1") EXCEPT !.merchant_name = "n1"]>>,
     <<[activeRow("m1", "a1") EXCEPT !.refresh_token = ""]>>}

InitRefresh ==
    /\ tokensExists = TRUE
    /\ tokensHead = HeaderRow
    /\ tokens \in RefreshSheets
    /\ clock = Now0
    /\ call = [p \in Procs |-> IdleCall]
    /\ ncalls = 0
    /\ probe = NoProbe
    /\ custSheet = [m \in Merchants |-> OldSheet]
    /\ sy = IdleSync
    /\ sched = NoPass
    /\ race = NoRace
    /\ cleanup = [p \in Procs |-> IdleClean]
    /\ refresh = NoRefresh
    /\ mode = "refresh"

NextRefresh ==
    \/ RefreshBegin
    \/ RefreshPost
    \/ SaveOpen("p1")
    \/ SaveRead("p1")
    \/ SaveScan("p1")
    \/ SaveAppend("p1")
    \/ RefreshSaved
    \/ ManualSync
    \/ SyncTokens
    \/ SearchRequest
    \/ FallbackRequest
    \/ InvoiceRequest
    \/ SyncGate
    \/ PersistOpen
    \/ PersistWrite
    \/ StatusRead
    \/ StatusWrite
    \/ RefreshSynced

SpecRefresh == InitRefresh /\ [][NextRefresh]_vars

----------------------------------------------------------------------------
(* Claims about the token store *)

\* C1: sequential calls of save_tokens_to_sheets never make the number of
\* rows of a merchant that already has a row grow.
C1_SequentialUpsertNeverGrows ==
    [][\A m \in Merchants :
          CountRows(tokens, m) >= 1
            => CountRows(tokens', m) <= CountRows(tokens, m)]_vars

\* C2: under every interleaving of concurrent save_tokens_to_sheets calls
\* the worksheet holds at most one active row per merchant.
C2_OneActiveRowPerMerchant ==
    \A m \in Merchants : Cardinality(ActiveRowsOf(tokens, m)) <= 1

\* C3: a call that found a row of its merchant performs at most one write
\* and never appends, also when the update of the matching row raised.
C3_NoAppendWhenRowFound ==
    \A p \in Procs :
        call[p].matched >= 1 => ~call[p].appended /\ call[p].writes <= 1

\* C4: get_all_active_merchants returns at most one entry per merchant, and
\* an entry only for a merchant that has a row with status active.
C4_ListActiveDeduplicated ==
    probe.op = "list" =>
        /\ \A i, j \in 1..Len(probe.out) :
              probe.out[i].merchant_id = probe.out[j].merchant_id => i = j
        /\ \A i \in 1..Len(probe.out) :
              ActiveRowsOf(tokens, probe.out[i].merchant_id) # {}

\* C4's case: the worksheet repeats an active merchant and the list
\* returned holds it.
C4_Witness ==
    /\ probe.op = "list"
    /\ \E m \in Merchants :
          /\ Cardinality(ActiveRowsOf(tokens, m)) >= 2
          /\ \E i \in 1..Len(probe.out) : probe.out[i].merchant_id = m
    /\ \E k \in 1..Len(tokens) : tokens[k].status = "revoked"

----------------------------------------------------------------------------
(* Claims about one sync *)

\* Every row of a customer sheet carries no invoice.
NoLinkage(rows) ==
    \A k \in 1..Len(rows) :
        /\ rows[k].latest_invoice_id = ""
        /\ rows[k].due_date = NoTs
        /\ rows[k].invoice_status = ""

\* update_sync_status has written time t and count n to the merchant's rows.
StatusIs(m, t, n) ==
    /\ RowsOf(tokens, m) # {}
    /\ \A k \in RowsOf(tokens, m) :
          tokens[k].last_sync = t /\ tokens[k].total_customers = n

\* C5: when the invoice search fails (403, another non-200 status or a
\* raised request) after a successful customer fetch, the sync goes on to
\* persist every fetched customer without invoice data, updates the sync
\* status and returns True, as long as the Sheets client itself works.
C5_LinkFailureKeepsCustomers ==
    sy.fetch = "ok" /\ sy.link = "failed" =>
        /\ Len(sy.all_customers) = Len(sy.fetched)
        /\ \A k \in 1..Len(sy.fetched) :
              /\ sy.all_customers[k].id = sy.fetched[k].id
              /\ sy.all_customers[k].latest_invoice = NoInvoice
        /\ sy.pc = "done" => sy.ret = sy.persisted
        /\ sy.pc = "done" /\ ~sy.storeFailed =>
              /\ sy.ret = TRUE
              /\ custSheet[sy.merchant_id].exists
              /\ custSheet[sy.merchant_id].rows = CustomerRows(sy.fetched, clock)
              /\ NoLinkage(custSheet[sy.merchant_id].rows)
              /\ StatusIs(sy.merchant_id, clock, Len(sy.fetched))

\* C5's case: a sync whose invoice search failed has returned True with
\* the customers on the sheet.
C5_Witness ==
    /\ sy.pc = "done"
    /\ sy.fetch = "ok"
    /\ sy.link = "failed"
    /\ sy.ret = TRUE
    /\ ~sy.storeFailed
    /\ Len(custSheet[sy.merchant_id].rows) >= 2
    /\ sy.path = "search"

\* C6: a sync whose customer fetch failed returns False.
C6_FetchFailureReturnsFalse ==
    sy.pc = "done" /\ sy.fetch = "failed" => sy.ret = FALSE

\* C7: without an active row of the merchant the sync returns False, sends
\* no request and writes to no worksheet.
C7_NoCredentialNoEffect ==
    /\ sy.pc \notin {"idle", "tokens"}
    /\ (~tokensExists \/ ActiveRowsOf(sy.tokens0, sy.merchant_id) = {})
    => /\ sy.pc = "done"
       /\ sy.ret = FALSE
       /\ sy.nreq = 0
       /\ sy.writes = 0
       /\ tokens = sy.tokens0
       /\ custSheet[sy.merchant_id] = sy.cust0

\* C7's case: the merchant has a row, but none with status active, and
\* the sync has returned.
C7_Witness ==
    /\ sy.pc = "done"
    /\ sy.ret = FALSE
    /\ tokensExists
    /\ RowsOf(sy.tokens0, sy.merchant_id) # {}
    /\ ActiveRowsOf(sy.tokens0, sy.merchant_id) = {}

\* C8: a fetch that succeeds with no customer in the window is a valid
\* sync: the merchant's sheet ends up empty, total_customers is 0,
\* last_sync is the time of the sync and the sync returns True (as long as
\* the Sheets client itself works).
C8_EmptyFetchIsValidSync ==
    /\ sy.pc = "done"
    /\ sy.fetch = "ok"
    /\ sy.fetched = <<>>
    /\ ~sy.storeFailed
    => /\ sy.ret = TRUE
       /\ custSheet[sy.merchant_id].exists
       /\ custSheet[sy.merchant_id].rows = <<>>
       /\ StatusIs(sy.merchant_id, clock, 0)

\* C8's case: the merchant had customers on the sheet, the source answered
\* with customers that are all outside the window, and the sync returned.
C8_Witness ==
    /\ sy.pc = "done"
    /\ sy.fetch = "ok"
    /\ sy.fetched = <<>>
    /\ ~sy.storeFailed
    /\ sy.ret = TRUE
    /\ sy.cust0 = OldSheet
    /\ \E i \in 1..Len(sy.resps) : sy.resps[i].page # <<>>
    /\ \E k \in RowsOf(sy.tokens0, sy.merchant_id) :
          sy.tokens0[k].last_sync # clock

\* The records the search path keeps of the pages answered, in page order.
RECURSIVE KeptOfPages(_, _, _)
KeptOfPages(resps, now, days_back) ==
    IF resps = <<>> THEN <<>>
    ELSE SearchFilter(Head(resps).page, now, days_back)
           \o KeptOfPages(Tail(resps), now, days_back)

\* C9: when the search endpoint answers k pages, with a cursor on every
\* page but the last, fetch_all_customers sends exactly k requests, the
\* first without a cursor and each later one with the cursor of the
\* response before it, stops at the response without a cursor and returns
\* the kept records of the k pages in page order.
C9_PaginationFollowsCursors ==
    sy.path = "search" /\ sy.fetch = "ok" =>
        LET k == Len(sy.resps) IN
        /\ Len(sy.reqs) = k
        /\ sy.nreq = k + Len(sy.ireqs)
        /\ \A i \in 1..k : sy.reqs[i].endpoint = "search"
        /\ sy.reqs[1].cursor = NoCursor
        /\ \A i \in 2..k : sy.reqs[i].cursor = sy.resps[i - 1].cursor
        /\ \A i \in 1..(k - 1) : sy.resps[i].cursor # NoCursor
        /\ sy.resps[k].cursor = NoCursor
        /\ sy.fetched = KeptOfPages(sy.resps, clock, DaysBack)
        /\ Len(sy.all_customers) = Len(sy.fetched)
        /\ \A i \in 1..Len(sy.fetched) :
              sy.all_customers[i].id = sy.fetched[i].id

\* C9's case: three pages, two different cursors, records kept from more
\* than one page.
C9_Witness ==
    /\ sy.path = "search"
    /\ sy.fetch = "ok"
    /\ Len(sy.resps) = 3
    /\ sy.resps[1].cursor # sy.resps[2].cursor
    /\ Len(sy.fetched) = 3
    /\ sy.pc = "done"

----------------------------------------------------------------------------
(* Claims about the date filter *)

\* A timestamp lies within the history window: it is a timestamp and is
\* not older than the cutoff now - days_back days of line 403 and line 498.
InWindow(ts, now, days_back) ==
    ts # NoTs /\ ts # BadTs /\ ts >= CutoffAt(now, days_back)

\* C10: on either path the client-side filter keeps a customer if and only
\* if its created_at or its updated_at lies within the history window.
C10_FilterKeepsExactlyWindow ==
    probe.op \in {"search_filter", "fallback_filter"} =>
        (probe.kept <=>
            \/ InWindow(probe.customer.created_at, clock, DaysBack)
            \/ InWindow(probe.customer.updated_at, clock, DaysBack))

----------------------------------------------------------------------------
(* Claims about the invoice linker *)

\* The places in the invoice list of the invoices whose recipient is cid.
InvoicesOf(invoices, cid) ==
    {k \in 1..Len(invoices) : invoices[k].customer_id = cid}

\* C11: the map the linker returns has only ids of the requested
\* customers as keys, one entry per key, and the entry of a customer is
\* built from the first invoice of the list whose recipient is that
\* customer, never from a later one; the merge attaches that entry.
C11_LinkerFirstInvoiceWins ==
    sy.link = "ok" =>
        /\ DOMAIN sy.invoice_data \subseteq CustomerIds(sy.fetched)
        /\ \A cid \in DOMAIN sy.invoice_data :
              /\ InvoicesOf(sy.invoices, cid) # {}
              /\ sy.invoice_data[cid] =
                    InvoiceEntry(sy.invoices[Min(InvoicesOf(sy.invoices, cid))])
        /\ \A k \in 1..Len(sy.all_customers) :
              sy.all_customers[k].id \in DOMAIN sy.invoice_data =>
                 sy.all_customers[k].latest_invoice =
                    sy.invoice_data[sy.all_customers[k].id]

\* C11's case: the answer holds two invoices of one fetched customer and
\* one of a customer that was not fetched, and the first one is attached.
C11_Witness ==
    /\ sy.link = "ok"
    /\ \E cid \in CustomerIds(sy.fetched) :
          /\ Cardinality(InvoicesOf(sy.invoices, cid)) >= 2
          /\ sy.invoice_data[cid].id = "i1"
    /\ \E k \in 1..Len(sy.invoices) :
          sy.invoices[k].customer_id \notin CustomerIds(sy.fetched)
    /\ sy.pc = "done"

----------------------------------------------------------------------------
(* Claims about the sync gate *)

\* C13: for every threshold, should_sync_merchant and the gate that
\* background_sync computes in place answer true when last_sync is
\* missing or is not a timestamp.
C13_GateFailsOpen ==
    probe.op \in {"should_sync_merchant", "inline_gate"} =>
        (probe.last_sync = NoTs \/ ~Parses(probe.last_sync)
            => probe.result = TRUE)

\* C13's case: should_sync_merchant has answered for a last_sync that does
\* not parse, under the scheduler's threshold.
C13_Witness ==
    /\ probe.op = "should_sync_merchant"
    /\ probe.last_sync = BadTs
    /\ probe.threshold = SyncThresholdDays
    /\ probe.result = TRUE

----------------------------------------------------------------------------
(* Claims about repeated syncs *)

\* A customer sheet without the sync_date column, which is the time of the
\* write and not a field of the customer record.
SansSyncDate(sheet) ==
    [sheet EXCEPT !.rows = [k \in 1..Len(sheet.rows) |->
                               [sheet.rows[k] EXCEPT !.sync_date = 0]]]

\* C12: when sync_merchant_customers runs twice in succession for a
\* merchant and the Square API answers both runs alike, the customer sheet
\* after the second run holds the same customer records as after the
\* first, and every row in it was written by the second run.
C12_SecondRunSameCollection ==
    sy.run = 2 /\ sy.pc = "done" /\ sy.first.persisted /\ sy.persisted =>
        LET sheet == custSheet[sy.merchant_id] IN
        /\ SansSyncDate(sheet) = SansSyncDate(sy.first.sheet)
        /\ \A k \in 1..Len(sheet.rows) : sheet.rows[k].sync_date = clock

\* C12's case: the first run wrote customers over an older sheet, the
\* second run ran at a later time and wrote them again.
C12_Witness ==
    /\ sy.run = 2
    /\ sy.pc = "done"
    /\ sy.first.persisted
    /\ sy.persisted
    /\ Len(sy.first.sheet.rows) >= 2
    /\ sy.first.at < clock
    /\ sy.cust0 = sy.first.sheet
    /\ \E k \in 1..Len(sy.fetched) : sy.all_customers[k].latest_invoice # NoInvoice

----------------------------------------------------------------------------
(* Claims about the passes over the merchants *)

\* C14: the loop of background_sync never ends: after an exception in a
\* cycle it sleeps the cooldown and starts a new cycle, after a cycle that
\* completes it sleeps the interval and starts a new cycle, so that a new
\* cycle begins again and again.
C14_LoopNeverStops ==
    /\ (sched.pc = "cooldown") ~> (sched.pc = "cycle")
    /\ (sched.pc = "sleep") ~> (sched.pc = "cycle")
    /\ []<>(sched.pc = "cycle")
    /\ []<>(sched.pc = "check")

\* The elements of a sequence.
Range(seq) == {seq[k] : k \in 1..Len(seq)}

\* C15: when a pass over the merchants (a cycle of background_sync, a
\* force_sync_all or an authorized cron_sync) has ended, the loop has come
\* to every listed merchant and has called the sync for every one that was
\* due, also when the sync of an earlier merchant returned False or raised.
C15_FailureDoesNotStopPass ==
    sched.pc \in {"sleep", "cooldown", "done"}
      /\ (sched.kind = "cron" => sched.authorized) =>
        \A j \in 1..Len(sched.merchants) :
            LET merchant == sched.merchants[j] IN
            /\ merchant.merchant_id \in Range(sched.checked)
            /\ PassGate(sched.kind, merchant.last_sync, clock)
                  => merchant.merchant_id \in Range(sched.calls)

\* The age in days from which a token is to be refreshed.
RefreshThresholdDays == 25

\* C16: when a cycle of background_sync calls the sync for a merchant, no
\* active token of that merchant has reached the refresh threshold: a
\* token that had was refreshed earlier in the cycle.
C16_RefreshBeforeSync ==
    sched.kind = "background" /\ sched.pc = "sync" =>
        \A k \in ActiveRowsOf(tokens, sched.merchants[sched.i].merchant_id) :
            /\ Parses(tokens[k].updated_at)
            /\ tokens[k].updated_at # NoTs
            /\ DaysSince(clock, tokens[k].updated_at) < RefreshThresholdDays

\* C17: force_sync_all calls the sync once for every merchant that
\* get_all_active_merchants listed, in the order listed and whatever the
\* merchant's last_sync; when the request has ended it has called it for
\* all of them.
C17_ForceSyncsEveryMerchantOnce ==
    sched.kind = "force" =>
        /\ Len(sched.calls) <= Len(sched.merchants)
        /\ \A j \in 1..Len(sched.calls) :
              sched.calls[j] = sched.merchants[j].merchant_id
        /\ sched.pc = "check" => Len(sched.calls) = sched.i - 1
        /\ sched.pc = "done" => Len(sched.calls) = Len(sched.merchants)

\* C18: cron_sync goes past its test only when the Authorization header is
\* "Bearer " followed by the configured secret; every other request, under
\* every configuration of the secret and under none, is answered 401 and
\* calls no sync.
C18_CronRequiresSecret ==
    sched.kind = "cron" /\ sched.pc # "request" =>
        \/ /\ sched.secret.set
           /\ sched.header.present
           /\ sched.header.value = "Bearer " \o sched.secret.value
        \/ /\ sched.status = 401
           /\ ~sched.authorized
           /\ sched.calls = <<>>

----------------------------------------------------------------------------
(* Claims about concurrent syncs *)

\* C19: at no time are two threads inside sync_merchant_customers for the
\* same merchant.
C19_OneSyncPerMerchant ==
    \A t \in Threads, u \in Threads :
        t # u /\ InSync(race[t]) /\ InSync(race[u])
            => race[t].merchant_id # race[u].merchant_id

\* C20: when two syncs of one merchant have both saved and returned, the
\* customer sheet holds the complete rows of exactly one of them: no rows
\* of both, no row left over from the one that was overwritten.
C20_NoInterleavedWrites ==
    \A t \in Threads, u \in Threads :
        /\ t # u
        /\ race[t].pc = "done" /\ race[u].pc = "done"
        /\ race[t].ret /\ race[u].ret
        /\ race[t].merchant_id = race[u].merchant_id
        => \E w \in {t, u} :
              custSheet[race[t].merchant_id].rows
                 = CustomerRows(race[w].customers, clock)


----------------------------------------------------------------------------
(* C24: a failed customer fetch and the data persisted before *)

\* C24: a sync whose customer fetch failed (non-200 on the search and on
\* the fallback, or a raised request) leaves the merchant's customer sheet
\* as it was when the sync was entered, and leaves last_sync and
\* total_customers of every row of the token sheet unchanged.
C24_FailedFetchKeepsData ==
    sy.fetch = "failed"
        => /\ custSheet[sy.merchant_id] = sy.cust0
           /\ \A k \in 1..Len(tokens) :
                /\ k <= Len(sy.tokens0)
                /\ tokens[k].last_sync = sy.tokens0[k].last_sync
                /\ tokens[k].total_customers = sy.tokens0[k].total_customers


----------------------------------------------------------------------------
(* C25: a replace of the customer sheet that fails *)

\* C25: when save_customer_data fails (a call of the Sheets client raised
\* before the new rows were written), the merchant's customer sheet is the
\* one it was when the sync was entered: it is neither cleared nor partly
\* rewritten.
C25_FailedReplaceKeepsCollection ==
    sy.pc = "done" /\ sy.storeFailed /\ ~sy.persisted
        => custSheet[sy.merchant_id] = sy.cust0

----------------------------------------------------------------------------
(* C26: the order of the steps of one sync *)

\* C26: in one sync the invoice search comes after the customer fetch has
\* ended, a non-empty fetched list is persisted only after the invoice
\* search was attempted for it, whichever endpoint delivered it, and
\* last_sync is written only after save_customer_data returned True in
\* that sync.
C26_FetchLinkPersistStatus ==
    /\ sy.link # "none" => sy.fetched # <<>>
    /\ sy.pc \in {"persist_open", "persist_write"} \/ sy.persisted
          => sy.fetch # "none"
    /\ sy.persisted /\ sy.fetched # <<>> => sy.link # "none"
    /\ sy.pc # "idle" /\ tokens # sy.tokens0 => sy.persisted


----------------------------------------------------------------------------
(* C28: the fallback and the records fetched before it *)

\* The customers the date filter of an endpoint keeps from the answers that
\* endpoint gave with status 200.
KeptFrom(answers, endpoint) ==
    UNION {Range(IF endpoint = "search"
                 THEN SearchFilter(answers[n].page, clock, DaysBack)
                 ELSE FallbackFilter(answers[n].page, clock, DaysBack)) :
             n \in {n \in 1..Len(answers) : answers[n].status = 200}}

\* C28: a non-200 answer of the customer search sends the fetch to the list
\* endpoint, whose pages go through the date filter, and when the fetch
\* has ended, by success or by a failure of the fallback too, every
\* in-window customer of every page that was answered with status 200 is
\* in the list it returns.
C28_FallbackKeepsFetched ==
    sy.run = 1 =>
        /\ (\E n \in 1..Len(sy.tape.search) : sy.tape.search[n].status = 500)
              => sy.path = "fallback"
        /\ sy.fetch # "none" =>
              \A c \in KeptFrom(sy.tape.search, "search")
                         \cup KeptFrom(sy.tape.list, "list") :
                  c.id \in CustomerIds(sy.fetched)


----------------------------------------------------------------------------
(* C29: invoices behind the first page of the invoice search *)

\* C29: the invoice search is followed through its cursors: when it was
\* answered with a cursor a further request carrying that cursor is sent,
\* and every fetched customer who has an invoice on the first page or on a
\* page behind it has a latest_invoice.
C29_InvoicePagesFollowed ==
    sy.pc \in {"persist_open", "persist_write", "status_read",
               "status_write", "done"} /\ sy.link = "ok"
    => /\ sy.icursor # NoCursor
            => \E n \in 1..Len(sy.ireqs) : sy.ireqs[n].cursor = sy.icursor
       /\ \A k \in 1..Len(sy.all_customers) :
            (\E j \in 1..Len(sy.invoices \o sy.later) :
                (sy.invoices \o sy.later)[j].customer_id
                    = sy.all_customers[k].id)
            => sy.all_customers[k].latest_invoice # NoInvoice


----------------------------------------------------------------------------
(* C30: records with malformed timestamps *)

\* No timestamp of the customer parses.
Malformed(customer) ==
    /\ BadTs \in {customer.created_at, customer.updated_at}
    /\ {customer.created_at, customer.updated_at} \subseteq {BadTs, NoTs}

\* The customers collected by the loop that is running or has ended.
Collected == IF sy.pc \in {"search", "fallback"} THEN sy.all_customers
             ELSE sy.fetched

\* The well-formed customers of the pages answered so far that lie in the
\* window of the endpoint in use, in the order of arrival.
RECURSIVE WellFormedInWindow(_, _)
WellFormedInWindow(answers, n) ==
    IF n > Len(answers) THEN <<>>
    ELSE SelectSeq(answers[n].page,
                   LAMBDA c : /\ ~Malformed(c)
                              /\ IF sy.path = "search"
                                 THEN SearchKeeps(c, clock, DaysBack)
                                 ELSE FallbackKeeps(c, clock, DaysBack))
         \o WellFormedInWindow(answers, n + 1)

\* C30: a customer none of whose timestamps parses is not in the fetched
\* list, and it does not end the fetch: the well-formed in-window
\* customers of the same page and of every page answered after it are in
\* the list, in order.
C30_MalformedSkipped ==
    sy.path # "none" =>
        /\ \A k \in 1..Len(Collected) : ~Malformed(Collected[k])
        /\ Collected = WellFormedInWindow(sy.resps, 1)

\* C30's case: the fetch met a malformed customer on a page, kept a
\* well-formed one that follows it on that page and one of a later page.
C30_Witness ==
    /\ sy.fetch = "ok"
    /\ Len(sy.resps) >= 2
    /\ sy.resps[1].page = <<cBad, cIn>>
    /\ sy.resps[2].page = <<cIn, cBadBoth, cBadCreated>>
    /\ sy.fetched = <<cIn, cIn, cBadCreated>>


----------------------------------------------------------------------------
(* Claims about the functions of the token store *)

\* C21: a call of save_tokens_to_sheets that updates a row of its merchant
\* gives that row the new access token, refresh token, updated_at and the
\* status 'active', gives it the merchant name only when one was passed,
\* and leaves its merchant_id, last_sync and total_customers as they were;
\* every other row of the sheet, of this or another merchant, stays as it
\* was and no row is added or removed.
C21_UpsertFrame ==
    [][\A p \in Procs :
          call[p].pc = "scan" /\ call'[p].pc = "done" =>
              LET c == call[p] IN
              /\ Len(tokens') = Len(tokens)
              /\ \E k \in RowsOf(tokens, c.merchant_id) :
                   /\ \A j \in 1..Len(tokens) : j # k => tokens'[j] = tokens[j]
                   /\ tokens'[k].merchant_id = c.merchant_id
                   /\ tokens'[k].access_token = c.access_token
                   /\ tokens'[k].refresh_token = c.refresh_token
                   /\ tokens'[k].updated_at = clock
                   /\ tokens'[k].status = "active"
                   /\ tokens'[k].merchant_name =
                        IF c.merchant_name # NoName THEN c.merchant_name
                        ELSE tokens[k].merchant_name
                   /\ tokens'[k].last_sync = tokens[k].last_sync
                   /\ tokens'[k].total_customers = tokens[k].total_customers
      ]_vars

\* C21's case: a call without a merchant name has updated a revoked row of
\* its merchant that has a name, a last_sync and a customer count, in a
\* sheet that also holds a row of another merchant.
C21_Witness ==
    \E p \in Procs :
        /\ mode = "ops"
        /\ call[p].pc = "done"
        /\ call[p].writes = 1
        /\ call[p].merchant_name = NoName
        /\ call[p].access_token = "a1"
        /\ clock = 1
        /\ \E k \in RowsOf(tokens, call[p].merchant_id) :
             /\ tokens[k].access_token = "a1"
             /\ tokens[k].updated_at = 1
             /\ tokens[k].status = "active"
             /\ tokens[k].merchant_name = "n1"
             /\ tokens[k].last_sync = 0
             /\ tokens[k].total_customers = 7
        /\ \E j \in 1..Len(tokens) : tokens[j].merchant_id # call[p].merchant_id


\* C22: when update_sync_status(m, n) has returned True, every row of m has
\* as last_sync a time of the call and n as total_customers and is otherwise
\* as it was, and every row of another merchant is as it was; when the
\* sheet has no row of m, as get_all_records reads it, the call returns
\* False and the sheet is unchanged.
C22_StatusFrame ==
    mode = "ops" /\ sy.pc = "done" =>
        LET m == sy.merchant_id
            n == Len(sy.all_customers)
            records0 == get_all_records(tokensHead, sy.tokens0)
        IN
        /\ StatusResult(sy) =>
              /\ RowsOf(sy.tokens0, m) # {}
              /\ Len(tokens) = Len(sy.tokens0)
              /\ \A k \in 1..Len(tokens) :
                   IF sy.tokens0[k].merchant_id = m
                   THEN \E t \in sy.at..clock :
                          tokens[k] = [sy.tokens0[k] EXCEPT
                                         !.last_sync = t,
                                         !.total_customers = n]
                   ELSE tokens[k] = sy.tokens0[k]
        /\ RowsOf(records0, m) = {} =>
              /\ ~StatusResult(sy)
              /\ tokens = sy.tokens0

\* C22's case: a call for a merchant with a row that has a name and an
\* older last_sync returned True at a later time, in a sheet with a row of
\* another merchant.
C22_Witness ==
    /\ mode = "ops"
    /\ sy.pc = "done"
    /\ StatusResult(sy)
    /\ clock = 1
    /\ Len(sy.all_customers) = 2
    /\ \E k \in RowsOf(tokens, sy.merchant_id) :
         /\ sy.tokens0[k].last_sync = 0
         /\ tokens[k].last_sync = 1
         /\ tokens[k].merchant_name = "n1"
    /\ \E j \in 1..Len(tokens) : tokens[j].merchant_id # sy.merchant_id


\* The rows of a sheet that are the first of their merchant_id, in order.
RECURSIVE FirstOccurrences(_, _)
FirstOccurrences(rows, k) ==
    IF k > Len(rows) THEN <<>>
    ELSE (IF \E j \in 1..(k - 1) : rows[j].merchant_id = rows[k].merchant_id
          THEN <<>> ELSE <<rows[k]>>)
         \o FirstOccurrences(rows, k + 1)

\* C23: when cleanup_duplicate_merchants has returned True, the sheet holds
\* exactly one row for every merchant_id it held a row for and no other
\* row, and its rows are the first rows of their merchant_id in the sheet
\* as it was when the call read it, unchanged and in the same order.
C23_CleanupKeepsFirstRows ==
    mode = "ops" /\ cleanup["p1"].pc = "done" /\ cleanup["p1"].ret =>
        LET rows0 == cleanup["p1"].rows0 IN
        /\ tokens = FirstOccurrences(rows0, 1)
        /\ \A k \in 1..Len(rows0) :
             CountRows(tokens, rows0[k].merchant_id) = 1
        /\ \A k \in 1..Len(tokens) :
             \E j \in 1..Len(rows0) :
                 tokens[k].merchant_id = rows0[j].merchant_id


\* C27: whatever the interleaving of save_tokens_to_sheets,
\* update_sync_status and cleanup_duplicate_merchants, every row a call of
\* the first two writes values into carries the merchant_id the call was
\* made for.
C27_WritesStayInTenantRows ==
    [][/\ \A p \in Procs :
            call[p].pc \in {"scan", "append"} /\ call'[p] # call[p] =>
                \A j \in 1..Len(tokens') :
                    /\ j > Len(tokens) \/ tokens'[j] # tokens[j]
                    /\ tokens'[j] # BlankRow
                    => tokens'[j].merchant_id = call[p].merchant_id
       /\ sy.pc = "status_write" /\ sy' # sy =>
            \A j \in 1..Len(tokens') :
                /\ j > Len(tokens) \/ tokens'[j] # tokens[j]
                /\ tokens'[j] # BlankRow
                => tokens'[j].merchant_id = sy.merchant_id
      ]_vars


----------------------------------------------------------------------------
(* C32: the two date filters against each other *)

\* C32: the filter of fetch_all_customers and the filter of
\* fetch_customers_fallback keep the same customers: a customer, whatever
\* its timestamps, the edge of the window included, is kept by the one
\* exactly when it is kept by the other.
C32_FiltersAgree ==
    probe.op = "both_filters" => (probe.search <=> probe.fallback)


----------------------------------------------------------------------------
(* C31: the safety bound of the paginated fetch *)

\* The safety bound on the accumulated records (1000 to 2000 records of
\* pages of 100), scaled to the pages of one or two customers of the model.
SafetyBound == 2

\* C31: the fetch loop sends no further request once the customers it has
\* accumulated have reached the safety bound, on the search endpoint and on
\* the list endpoint, however long the source goes on returning cursors.
C31_StopsAtSafetyBound ==
    sy.pc \in {"search", "fallback"} => Len(sy.all_customers) < SafetyBound


----------------------------------------------------------------------------
(* C33: the numbers of the sync gate *)

\* C33: for a last_sync that parses, should_sync_merchant answers true
\* exactly when the time since last_sync is threshold_days days or more,
\* and so answers false for every younger last_sync, one in the future
\* included.
C33_GateAtThreshold ==
    /\ probe.op = "should_sync_merchant"
    /\ probe.last_sync # NoTs
    /\ Parses(probe.last_sync)
    => /\ probe.result <=>
             clock - probe.last_sync >= probe.threshold * TicksPerDay
       /\ probe.last_sync > clock => probe.result = FALSE

\* C33's case: should_sync_merchant has answered true for a last_sync that
\* is exactly the scheduler's threshold old.
C33_Witness ==
    /\ probe.op = "should_sync_merchant"
    /\ probe.threshold = SyncThresholdDays
    /\ probe.last_sync = clock - SyncThresholdDays * TicksPerDay
    /\ probe.result = TRUE


----------------------------------------------------------------------------
(* C36: the two sync gates against each other *)

\* C36: for every last_sync, missing, not a timestamp, past or future, the
\* gate that background_sync computes in place and should_sync_merchant
\* answer alike under the same threshold, and a cycle of background_sync
\* syncs a merchant exactly when a cron_sync would.
C36_GatesAgree ==
    probe.op = "both_gates" =>
        /\ probe.inline <=> probe.function
        /\ probe.background <=> probe.cron

\* C36's case: both gates have answered for a last_sync that is not a
\* timestamp, and for thresholds other than the scheduler's.
C36_Witness ==
    /\ probe.op = "both_gates"
    /\ probe.last_sync = BadTs
    /\ probe.threshold # SyncThresholdDays
    /\ probe.inline
    /\ probe.function


\* The number of entries of a result list that are v.
CountOf(seq, v) == Cardinality({j \in 1..Len(seq) : seq[j] = v})

\* C35: a scheduler pass puts every merchant it listed into one class: at
\* each turn of the loop the merchants before the current one are counted
\* once each, and when the pass has ended all are.  At the end of a cycle
\* of background_sync (the sleep of line 664 or of line 669) synced +
\* failed + skipped is the number of merchants listed; at the end of an
\* authorized cron_sync there is one result per merchant listed
\* (total_merchants) and synced_count is the number of syncs that returned
\* True.
C35_EveryMerchantClassifiedOnce ==
    /\ sched.kind = "background" =>
          /\ sched.pc = "check" =>
                sched.synced_count + sched.failed_count + sched.skipped_count
                    = sched.i - 1
          /\ sched.pc \in {"sleep", "cooldown"} =>
                sched.synced_count + sched.failed_count + sched.skipped_count
                    = Len(sched.merchants)
    /\ sched.kind = "cron" /\ sched.authorized =>
          /\ sched.pc = "check" => Len(sched.results) = sched.i - 1
          /\ sched.pc = "done" =>
                /\ Len(sched.results) = Len(sched.merchants)
                /\ sched.synced_count = CountOf(sched.results, "ok")
                /\ Len(sched.calls) =
                       CountOf(sched.results, "ok")
                           + CountOf(sched.results, "failed")
                /\ Len(sched.checked) = Len(sched.merchants)

----------------------------------------------------------------------------
(* C34: refresh_and_sync, the order of refresh, save and sync *)

\* A row of the merchant holds the tokens as an active credential.
HoldsTokens(rows, m, access_token, refresh_token) ==
    \E k \in RowsOf(rows, m) :
        /\ rows[k].access_token = access_token
        /\ rows[k].refresh_token = refresh_token
        /\ rows[k].status = "active"

\* C34: in a refresh_and_sync request the sync is entered only after the
\* token endpoint answered 200 and save_tokens_to_sheets returned True
\* with the new tokens in a row of the merchant; a request whose refresh
\* was answered with another status, or raised, ends with the 'tokens'
\* sheet and the customer sheets as they were and without a sync.
C34_SyncOnlyAfterStoredRefresh ==
    refresh.pc # "idle" =>
        /\ sy.pc # "idle" =>
              /\ refresh.post = 200
              /\ refresh.saved
              /\ HoldsTokens(refresh.stored, refresh.merchant_id,
                             refresh.new_access_token,
                             refresh.new_refresh_token)
        /\ refresh.post # 200 =>
              /\ sy.pc = "idle"
              /\ call["p1"].pc = "idle"
              /\ tokens = refresh.tokens0
              /\ custSheet = refresh.cust0
        /\ refresh.pc = "done" /\ refresh.post = 400 => refresh.status = 400

\* C34's case: a request came through the refresh, the save and a sync
\* that sent requests to the Square API and returned True.
C34_Witness ==
    /\ refresh.pc = "done"
    /\ refresh.status = 200
    /\ refresh.success
    /\ sy.nreq > 0
    /\ tokens # refresh.tokens0

\* The other case of C34: the token endpoint rejected the refresh.
C34_Rejected ==
    /\ refresh.pc = "done"
    /\ refresh.post = 400

----------------------------------------------------------------------------
(* C39: merchants without an active row *)

\* The step sends a request that carries a stored token of merchant m: a
\* request of the sync to the Square API, or the refresh token posted to
\* the token endpoint.
SendsWithTokensOf(m) ==
    \/ sy'.merchant_id = m /\ sy'.nreq > 0 /\ sy'.nreq # sy.nreq
    \/ /\ refresh'.merchant_id = m
       /\ refresh'.pc # "post"
       /\ refresh.pc = "post"

\* The step writes a cell of a row of merchant m in 'tokens'.
WritesRowOf(m) ==
    \E k \in RowsOf(tokens', m) :
        k > Len(tokens) \/ tokens'[k] # tokens[k]

\* C39: while a merchant has no row with status active, no step of a
\* sync (whoever called it) or of a refresh_and_sync request sends a
\* request with its stored tokens, writes its customer sheet or writes one
\* of its rows in 'tokens'.
C39_NoSyncWithoutActiveRow ==
    [][\A m \in Merchants :
          ActiveRowsOf(tokens, m) = {} =>
              /\ ~SendsWithTokensOf(m)
              /\ custSheet'[m] = custSheet[m]
              /\ ~WritesRowOf(m)
              /\ sy'.merchant_id = m /\ sy'.pc = "done" => ~sy'.ret]_vars

\* C39's case: requests for a merchant whose only row is revoked were
\* handled: the sync returned False, the refresh was answered 404.
C39_Witness ==
    /\ RowsOf(tokens, "m1") # {}
    /\ ActiveRowsOf(tokens, "m1") = {}
    /\ \/ sy.merchant_id = "m1" /\ sy.pc = "done"
       \/ refresh.merchant_id = "m1" /\ refresh.pc = "done"
                                     /\ refresh.status = 404

----------------------------------------------------------------------------
(* C37: save_tokens_to_sheets followed by get_tokens_from_sheets *)

\* C37: when save_tokens_to_sheets has returned True, get_tokens_from_sheets
\* of the same merchant returns the access token and the refresh token the
\* call was given.
C37_SavedTokensAreRead ==
    \A p \in Procs :
        call[p].pc = "done" /\ call[p].ret =>
            LET t == get_tokens_from_sheets(tokensExists, tokensHead, tokens,
                                            call[p].merchant_id, TRUE)
            IN /\ t.found
               /\ t.access_token = call[p].access_token
               /\ t.refresh_token = call[p].refresh_token

----------------------------------------------------------------------------
(* C38: the X-API-Key test of list_merchants *)

\* C38: list_merchants answers with the list only when the request has an
\* X-API-Key header equal to the configured API key, and answers 401 to
\* every request without the header, whether or not a key is configured.
C38_ListRequiresApiKey ==
    probe.op = "list_merchants" =>
        /\ probe.status = 200 =>
              /\ probe.header.present
              /\ probe.api_key.set
              /\ probe.header.value = probe.api_key.value
        /\ ~probe.header.present => probe.status = 401

----------------------------------------------------------------------------
(* C40: the width of the range save_customer_data writes *)

\* C40: when save_customer_data has written the rows of a sync, the header
\* row and every customer row have no more cells than the range A1:Z<n>
\* has columns.
C40_RowsFitTheRange ==
    sy.persisted /\ Len(sy.all_customers) > 0 =>
        /\ Len(CustomerHeaders) <= UpdateRangeColumns
        /\ Len(CustomerRowCells) <= UpdateRangeColumns

====
